---- MODULE Spec2Model ----
(***************************************************************************)
(* Model of the authentication / authorization core of um_starter_jwt_go:  *)
(* the JWT service (internal/auth), the gin middleware chain               *)
(* (internal/middleware), the HTTP handlers (internal/handlers/auth.go)    *)
(* and the route table of cmd/api/main.go, over a GORM-backed directory    *)
(* of users, roles and the user_roles join table.                          *)
(*                                                                         *)
(* Time is counted in ticks; one second is TicksPerSecond ticks, so that   *)
(* time.Now() has a finer resolution than the whole seconds a JWT          *)
(* NumericDate keeps.                                                      *)
(***************************************************************************)
EXTENDS Integers, Sequences, FiniteSets, Bags, TLC

VARIABLES
    clock,       \* time.Now(), in ticks
    users,       \* table users: sequence of rows, row i has primary key i
    roles,       \* table roles: sequence of role names, role i has primary key i
    user_roles,  \* join table user_roles: bag of rows <<user id, role id>>
    issued,      \* history: every token GenerateTokenPair has signed
    req,         \* per worker: the request it is serving
    resp,        \* the HTTP response written by the last step (or NoResponse)
    nadv,        \* number of clock advances so far
    nreq,        \* number of requests accepted so far
    serving,     \* the workers that take requests in this run
    azIn,        \* input of the stand-alone role check (SpecAuthz)
    azOut,       \* its result
    proc         \* the process: its environment, where main stands, its log

vars == <<clock, users, roles, user_roles, issued, req, resp, nadv, nreq, serving,
          azIn, azOut, proc>>

-----------------------------------------------------------------------------
(* Bounds of the model *)

TicksPerSecond == 2
MaxAdvances == 1
MaxPairs == 2
MaxRequests == 4
MaxOverlapping == 3

Workers == {"w1", "w2"}

-----------------------------------------------------------------------------
(* time.Duration values, in ticks *)

Second == TicksPerSecond
Minute == 60 * Second
Hour == 60 * Minute

AccessDuration == 15 * Minute
RefreshDuration == 7 * 24 * Hour

\* jwt.TimePrecision: NewNumericDate truncates to whole seconds
TimePrecision == Second

Truncate(t, d) == t - (t % d)

\* jwt.NewNumericDate(t) as it is marshalled into the token: whole seconds
\* since the epoch
NewNumericDate(t) == Truncate(t, TimePrecision) \div Second

\* the time.Time a parsed NumericDate stands for, in ticks
NumericDateTime(n) == n * Second

-----------------------------------------------------------------------------
(* Signing: HMAC as a symbolic MAC over the signing string *)

secretKey == "JWT_SECRET"
otherKey == "attacker-key"
Keys == {secretKey, otherKey}

SigningMethodHS256 == "HS256"
Algs == {"HS256", "HS384", "none"}

JoseHeader(alg) == [alg |-> alg, typ |-> "JWT"]

SigningString(header, claims) == [header |-> header, claims |-> claims]

\* SigningMethodHMAC.Sign; the "none" method yields the empty signature
MacSign(alg, key, signingString) ==
    IF alg = "none"
    THEN [mac |-> "none"]
    ELSE [mac |-> alg, key |-> key, msg |-> signingString]

\* SigningMethodHMAC.Verify
MacVerify(alg, key, signingString, sig) ==
    /\ alg # "none"
    /\ sig = MacSign(alg, key, signingString)

\* jwt.NewWithClaims(method, claims) followed by token.SignedString(key)
SignedString(alg, key, claims) ==
    [header |-> JoseHeader(alg),
     claims |-> claims,
     sig    |-> MacSign(alg, key, SigningString(JoseHeader(alg), claims))]

-----------------------------------------------------------------------------
(* Directory reads *)

Range(s) == {s[i] : i \in DOMAIN s}

RECURSIVE SetToSortedSeq(_)
SetToSortedSeq(S) ==
    IF S = {} THEN <<>>
    ELSE LET m == CHOOSE x \in S : \A y \in S : x <= y
         IN <<m>> \o SetToSortedSeq(S \ {m})

\* a models.Role value
Role(rid) == [id |-> rid, name |-> roles[rid]]

\* an insert into user_roles without its primary key (user_id, role_id)
JoinInsertNoKey(table, row) == table (+) SetToBag({row})

\* INSERT INTO user_roles ... ON CONFLICT DO NOTHING, as gorm writes a
\* many2many association: the primary key (user_id, role_id) keeps one row
JoinInsert(table, row) ==
    IF BagIn(row, table) THEN table ELSE table (+) SetToBag({row})

\* DELETE FROM user_roles WHERE user_id = ? AND role_id = ?
JoinDelete(table, row) == [x \in (DOMAIN table) \ {row} |-> table[x]]

\* Preload("Roles"): the roles joined to the user, in primary-key order
PreloadRoles(uid) ==
    LET rids == SetToSortedSeq({ur[2] : ur \in {x \in BagToSet(user_roles) : x[1] = uid}})
    IN [i \in DOMAIN rids |-> Role(rids[i])]

\* the models.User value a query returns for a row
LoadUser(uid, withRoles) ==
    [id       |-> uid,
     email    |-> users[uid].email,
     password |-> users[uid].password,
     name     |-> users[uid].name,
     profile  |-> users[uid].profile,
     roles    |-> IF withRoles THEN PreloadRoles(uid) ELSE <<>>]

\* a query without the soft-delete filter (db.Unscoped()): deleted rows are seen
LiveUnscoped(uid) == uid \in DOMAIN users

\* rows a query sees: gorm adds "deleted_at IS NULL" for a model with DeletedAt
Live(uid) == uid \in DOMAIN users /\ ~users[uid].deleted

\* db.First(&user, id)
FirstByID(uid) == IF Live(uid) THEN {uid} ELSE {}

\* db.Where("email = ?", email).First(&user)
FirstByEmail(email) ==
    LET S == {u \in DOMAIN users : Live(u) /\ users[u].email = email}
    IN IF S = {} THEN {} ELSE {CHOOSE u \in S : \A v \in S : u <= v}

-----------------------------------------------------------------------------
(* internal/auth: JWTService *)

Issuer == "um-api"

NoClaims == [none |-> TRUE]

\* a compact JWT as a string: one element, the token; any other sequence of
\* characters is not a JWT
Ch(c) == [ch |-> c]
TokenString(tok) == <<tok>>
IsJWT(s) == Len(s) = 1 /\ "sig" \in DOMAIN s[1]

RECURSIVE RoleNamesFrom(_, _)
\* the loop of GenerateTokenPair: roleNames[i] = role.Name
RoleNamesFrom(userRoles, i) ==
    IF i > Len(userRoles) THEN <<>>
    ELSE <<userRoles[i].name>> \o RoleNamesFrom(userRoles, i + 1)

\* the loop started one element late
RoleNamesFromSecond(userRoles) == RoleNamesFrom(userRoles, 2)

RoleNames(userRoles) == RoleNamesFrom(userRoles, 1)

\* generateToken, with now the value time.Now() returns in this call
generateToken(user, roleNames, duration, now) ==
    LET expirationTime == now + duration
        claims == [user_id |-> user.id,
                   email   |-> user.email,
                   name    |-> user.name,
                   roles   |-> roleNames,
                   exp     |-> NewNumericDate(expirationTime),
                   iat     |-> NewNumericDate(now),
                   nbf     |-> NewNumericDate(now),
                   iss     |-> Issuer]
    IN TokenString(SignedString(SigningMethodHS256, secretKey, claims))

\* a pair whose refresh token carries no role names
GenerateTokenPairBareRefresh(user, now1, now2) ==
    [access_token  |-> generateToken(user, RoleNamesFrom(user.roles, 1), AccessDuration, now1),
     refresh_token |-> generateToken(user, <<>>, RefreshDuration, now2)]

\* GenerateTokenPair: now1 and now2 are the two readings of time.Now(), one
\* in each generateToken call
GenerateTokenPair(user, now1, now2) ==
    LET roleNames == RoleNames(user.roles)
    IN [access_token  |-> generateToken(user, roleNames, AccessDuration, now1),
        refresh_token |-> generateToken(user, roleNames, RefreshDuration, now2)]

\* a key function without the check of the signing method
KeyFuncAnyMethod(token) == [err |-> "", key |-> secretKey]

\* the key function ValidateToken hands to the parser
KeyFunc(token) ==
    IF token.header.alg # SigningMethodHS256
    THEN [err |-> "unexpected signing method", key |-> ""]
    ELSE [err |-> "", key |-> secretKey]

\* a validator that still accepts a token at the instant of its expiry
ClaimsTimeErrorAtExpiry(claims, now) ==
    IF now > NumericDateTime(claims.exp) THEN "token is expired"
    ELSE IF now < NumericDateTime(claims.nbf) THEN "token is not valid yet"
    ELSE ""

\* jwt.Validator.Validate with default options: exp and nbf against now
ClaimsTimeError(claims, now) ==
    IF ~(now < NumericDateTime(claims.exp)) THEN "token is expired"
    ELSE IF now < NumericDateTime(claims.nbf) THEN "token is not valid yet"
    ELSE ""

\* a validation that also asks the directory for the subject
ValidateTokenLive(tokenString, now) ==
    IF ~IsJWT(tokenString)
    THEN [err |-> "token is malformed", claims |-> NoClaims]
    ELSE LET token == tokenString[1]
             k == KeyFunc(token)
         IN IF token.header.alg \notin Algs
            THEN [err |-> "signing method (alg) is unavailable", claims |-> NoClaims]
            ELSE IF k.err # ""
            THEN [err |-> k.err, claims |-> NoClaims]
            ELSE IF ~MacVerify(token.header.alg, k.key,
                               SigningString(token.header, token.claims), token.sig)
            THEN [err |-> "signature is invalid", claims |-> NoClaims]
            ELSE IF ClaimsTimeError(token.claims, now) # ""
            THEN [err |-> ClaimsTimeError(token.claims, now), claims |-> NoClaims]
            ELSE IF FirstByID(token.claims.user_id) = {}
            THEN [err |-> "token is revoked", claims |-> NoClaims]
            ELSE [err |-> "", claims |-> token.claims]

\* ValidateToken: jwt.ParseWithClaims with the key function, then token.Valid
ValidateToken(tokenString, now) ==
    IF ~IsJWT(tokenString)
    THEN [err |-> "token is malformed", claims |-> NoClaims]
    ELSE LET token == tokenString[1]
             k == KeyFunc(token)
         IN IF token.header.alg \notin Algs
            THEN [err |-> "signing method (alg) is unavailable", claims |-> NoClaims]
            ELSE IF k.err # ""
            THEN [err |-> k.err, claims |-> NoClaims]
            ELSE IF ~MacVerify(token.header.alg, k.key,
                               SigningString(token.header, token.claims), token.sig)
            THEN [err |-> "signature is invalid", claims |-> NoClaims]
            ELSE IF ClaimsTimeError(token.claims, now) # ""
            THEN [err |-> ClaimsTimeError(token.claims, now), claims |-> NoClaims]
            ELSE [err |-> "", claims |-> token.claims]

\* a refresh validation that tells the two kinds of token apart by lifetime
ValidateRefreshTokenByLifetime(tokenString, now) ==
    IF /\ IsJWT(tokenString)
       /\ NumericDateTime(tokenString[1].claims.exp) - NumericDateTime(tokenString[1].claims.iat)
              # RefreshDuration
    THEN [err |-> "not a refresh token", claims |-> NoClaims]
    ELSE ValidateToken(tokenString, now)

\* ValidateRefreshToken
ValidateRefreshToken(tokenString, now) == ValidateToken(tokenString, now)

-----------------------------------------------------------------------------
(* Requests and responses *)

NoUser == [none |-> TRUE]
NoData == [none |-> TRUE]
NoResponse == [none |-> TRUE]
NoToken == <<>>
IdleReq == [pc |-> "idle"]

\* the profile columns of models.User, and of UpdateUserRequest, at their
\* zero values
NoProfile ==
    [tel |-> "", age |-> 0, address |-> "", city |-> "", country |-> "", gender |-> ""]

\* the JSON body of a request; a field the request does not carry is empty
Body(email, password, refresh_token, role_name) ==
    [email |-> email, password |-> password,
     refresh_token |-> refresh_token, role_name |-> role_name, name |-> "",
     profile |-> NoProfile]

\* a body that carries a name as well (RegisterRequest, UpdateUserRequest)
WithName(body, name) == [body EXCEPT !.name = name]

EmptyBody == Body("", "", NoToken, "")

Request(route, header, id, body) ==
    [route |-> route, header |-> header, id |-> id, body |-> body]

\* c.JSON(status, ...) as the outcome of one stage or handler
Reply(status, error, data) == [status |-> status, error |-> error, data |-> data]

StatusOK == 200
StatusCreated == 201
StatusBadRequest == 400
StatusUnauthorized == 401
StatusForbidden == 403
StatusNotFound == 404
StatusInternalServerError == 500

\* a serialiser that writes every field of models.User
UserJSONEveryField(user) == user

\* json.Marshal of a models.User: Password carries json:"-"
UserJSON(user) ==
    [id |-> user.id, email |-> user.email, name |-> user.name, profile |-> user.profile,
     roles |-> user.roles]

-----------------------------------------------------------------------------
(* cmd/api/main.go: start-up *)

\* os.Getenv: the value of the variable, "" where it is not set
Getenv(env, key) == IF key \in DOMAIN env THEN env[key] ELSE ""

\* a main that does not look at JWT_SECRET
MainRunNoSecretCheck(env, table, ok) ==
    LET dbDSN == Getenv(env, "DB_DSN")
        serverPort == IF Getenv(env, "SERVER_PORT") = "" THEN "8080"
                      ELSE Getenv(env, "SERVER_PORT")
        seed(t, name, done) == IF done /\ name \notin Range(t) THEN Append(t, name) ELSE t
        seeded == seed(seed(table, "user", ok.seedUser), "admin", ok.seedAdmin)
        \* log.Fatal: the process logs the message and exits
        Fatal(e, t, message) ==
            [pc |-> "exited", env |-> e, addr |-> "", log |-> message, roles |-> t]
    IN IF dbDSN = "" THEN Fatal(env, table, "DB_DSN environment variable is required")
       ELSE IF ~ok.open THEN Fatal(env, table, "Failed to connect to database")
       ELSE IF ~ok.migrate THEN Fatal(env, table, "Failed to auto-migrate models")
       ELSE IF ~ok.listen THEN Fatal(env, seeded, "Failed to start server")
       ELSE [pc |-> "serving", env |-> env, addr |-> ":" \o serverPort,
             log |-> "Starting server", roles |-> seeded]

\* main, from the environment env and the roles table it finds, up to
\* router.Run; ok tells which of its calls to the database and to the network
\* succeed. The result is the process afterwards and the roles table as the
\* two FirstOrCreate calls, whose errors main drops, left it
MainRun(env, table, ok) ==
    LET dbDSN == Getenv(env, "DB_DSN")
        jwtSecret == Getenv(env, "JWT_SECRET")
        serverPort == IF Getenv(env, "SERVER_PORT") = "" THEN "8080"
                      ELSE Getenv(env, "SERVER_PORT")
        seed(t, name, done) == IF done /\ name \notin Range(t) THEN Append(t, name) ELSE t
        seeded == seed(seed(table, "user", ok.seedUser), "admin", ok.seedAdmin)
        \* log.Fatal: the process logs the message and exits
        Fatal(e, t, message) ==
            [pc |-> "exited", env |-> e, addr |-> "", log |-> message, roles |-> t]
    IN IF dbDSN = "" THEN Fatal(env, table, "DB_DSN environment variable is required")
       ELSE IF jwtSecret = ""
       THEN Fatal(env, table, "JWT_SECRET environment variable is required")
       ELSE IF ~ok.open THEN Fatal(env, table, "Failed to connect to database")
       ELSE IF ~ok.migrate THEN Fatal(env, table, "Failed to auto-migrate models")
       ELSE IF ~ok.listen THEN Fatal(env, seeded, "Failed to start server")
       ELSE [pc |-> "serving", env |-> env, addr |-> ":" \o serverPort,
             log |-> "Starting server", roles |-> seeded]

\* the process of the other specifications: main has run in a full
\* environment and serves
Started ==
    [pc |-> "serving",
     env |-> [DB_DSN |-> "postgres://db", JWT_SECRET |-> secretKey, SERVER_PORT |-> "9090"],
     addr |-> ":9090", log |-> "Starting server"]

-----------------------------------------------------------------------------
(* cmd/api/main.go: the route table *)

PublicRoutes == {"register", "login", "refresh"}
ProfileRoutes == {"profile"}
UsersRoutes ==
    {"users_list", "users_get", "users_put", "users_delete", "roles_assign", "roles_remove"}
ProtectedRoutes == ProfileRoutes \cup UsersRoutes
Routes == PublicRoutes \cup ProtectedRoutes

\* users.Use(middleware.RoleMiddleware("admin")): the allowed roles of the
\* RoleMiddleware in front of a route, <<>> where there is none
AllowedRoles(route) == IF route \in UsersRoutes THEN <<"admin">> ELSE <<>>

RoleGated(route) == route \in UsersRoutes

-----------------------------------------------------------------------------
(* internal/middleware *)

bearerScheme == <<Ch("B"), Ch("e"), Ch("a"), Ch("r"), Ch("e"), Ch("r"), Ch(" ")>>

\* a prefix test that leaves out the last character of the prefix
HasPrefixNoSpace(s, prefix) ==
    /\ Len(s) >= Len(prefix) - 1
    /\ SubSeq(s, 1, Len(prefix) - 1) = SubSeq(prefix, 1, Len(prefix) - 1)

\* strings.HasPrefix
HasPrefix(s, prefix) ==
    /\ Len(s) >= Len(prefix)
    /\ SubSeq(s, 1, Len(prefix)) = prefix

\* an AuthMiddleware that takes the roles of the user from the claims of the
\* token instead of preloading them
AuthMiddlewareRunRolesFromClaims(r, now) ==
    IF r.header = <<>> \/ ~HasPrefix(r.header, bearerScheme)
    THEN [abort |-> TRUE, stages |-> <<"ExtractToken">>,
          reply |-> Reply(StatusUnauthorized, "Invalid authorization header format", NoData),
          claims |-> NoClaims, user |-> NoUser]
    ELSE LET tokenString == SubSeq(r.header, Len(bearerScheme) + 1, Len(r.header))
             v == ValidateToken(tokenString, now)
         IN IF v.err # ""
            THEN [abort |-> TRUE, stages |-> <<"ExtractToken", "ValidateToken">>,
                  reply |-> Reply(StatusUnauthorized, "Invalid or expired token", NoData),
                  claims |-> NoClaims, user |-> NoUser]
            ELSE IF FirstByID(v.claims.user_id) = {}
            THEN [abort |-> TRUE,
                  stages |-> <<"ExtractToken", "ValidateToken", "LoadIdentity">>,
                  reply |-> Reply(StatusUnauthorized, "User not found", NoData),
                  claims |-> NoClaims, user |-> NoUser]
            ELSE [abort |-> FALSE,
                  stages |-> <<"ExtractToken", "ValidateToken", "LoadIdentity">>,
                  reply |-> Reply(0, "", NoData),
                  claims |-> v.claims,
                  user |-> [LoadUser(v.claims.user_id, FALSE) EXCEPT
                               !.roles = [k \in DOMAIN v.claims.roles |->
                                             [id |-> 0, name |-> v.claims.roles[k]]]]]

\* an AuthMiddleware that puts the name the claims carry into the user of the
\* context
AuthMiddlewareRunNameFromClaims(r, now) ==
    IF r.header = <<>> \/ ~HasPrefix(r.header, bearerScheme)
    THEN [abort |-> TRUE, stages |-> <<"ExtractToken">>,
          reply |-> Reply(StatusUnauthorized, "Invalid authorization header format", NoData),
          claims |-> NoClaims, user |-> NoUser]
    ELSE LET tokenString == SubSeq(r.header, Len(bearerScheme) + 1, Len(r.header))
             v == ValidateToken(tokenString, now)
         IN IF v.err # ""
            THEN [abort |-> TRUE, stages |-> <<"ExtractToken", "ValidateToken">>,
                  reply |-> Reply(StatusUnauthorized, "Invalid or expired token", NoData),
                  claims |-> NoClaims, user |-> NoUser]
            ELSE IF FirstByID(v.claims.user_id) = {}
            THEN [abort |-> TRUE,
                  stages |-> <<"ExtractToken", "ValidateToken", "LoadIdentity">>,
                  reply |-> Reply(StatusUnauthorized, "User not found", NoData),
                  claims |-> NoClaims, user |-> NoUser]
            ELSE [abort |-> FALSE,
                  stages |-> <<"ExtractToken", "ValidateToken", "LoadIdentity">>,
                  reply |-> Reply(0, "", NoData),
                  claims |-> v.claims,
                  user |-> [LoadUser(v.claims.user_id, TRUE) EXCEPT !.name = v.claims.name]]

\* AuthMiddleware. The result is either an aborted chain with the reply
\* written, or the context values set for the rest of the chain. stages lists
\* the pipeline stages entered, in order.
AuthMiddlewareRun(r, now) ==
    IF r.header = <<>>
    THEN [abort |-> TRUE, stages |-> <<"ExtractToken">>,
          reply |-> Reply(StatusUnauthorized, "Missing authorization header", NoData),
          claims |-> NoClaims, user |-> NoUser]
    ELSE IF ~HasPrefix(r.header, bearerScheme)
    THEN [abort |-> TRUE, stages |-> <<"ExtractToken">>,
          reply |-> Reply(StatusUnauthorized, "Invalid authorization header format", NoData),
          claims |-> NoClaims, user |-> NoUser]
    ELSE LET tokenString == SubSeq(r.header, Len(bearerScheme) + 1, Len(r.header))
             v == ValidateToken(tokenString, now)
         IN IF v.err # ""
            THEN [abort |-> TRUE, stages |-> <<"ExtractToken", "ValidateToken">>,
                  reply |-> Reply(StatusUnauthorized, "Invalid or expired token", NoData),
                  claims |-> NoClaims, user |-> NoUser]
            ELSE IF FirstByID(v.claims.user_id) = {}
            THEN [abort |-> TRUE,
                  stages |-> <<"ExtractToken", "ValidateToken", "LoadIdentity">>,
                  reply |-> Reply(StatusUnauthorized, "User not found", NoData),
                  claims |-> NoClaims, user |-> NoUser]
            ELSE [abort |-> FALSE,
                  stages |-> <<"ExtractToken", "ValidateToken", "LoadIdentity">>,
                  reply |-> Reply(0, "", NoData),
                  claims |-> v.claims,
                  user |-> LoadUser(v.claims.user_id, TRUE)]

\* an AuthMiddleware that answers every error of the query as "not found"
AuthMiddlewareRunFailingAsNotFound(r, now) ==
    LET res == AuthMiddlewareRun(r, now)
    IN IF Len(res.stages) < 3 THEN res
       ELSE [abort |-> TRUE, stages |-> res.stages,
             reply |-> Reply(StatusUnauthorized, "User not found", NoData),
             claims |-> NoClaims, user |-> NoUser]

\* AuthMiddleware when db.Preload("Roles").First returns an error that is not
\* gorm.ErrRecordNotFound: the stages before the query are as ever
AuthMiddlewareRunFailing(r, now) ==
    LET res == AuthMiddlewareRun(r, now)
    IN IF Len(res.stages) < 3 THEN res
       ELSE [abort |-> TRUE, stages |-> res.stages,
             reply |-> Reply(StatusInternalServerError, "Database error", NoData),
             claims |-> NoClaims, user |-> NoUser]

\* an inner loop that stops after the first allowed role
AnyAllowedFirstOnly(roleName, allowedRoles, j) ==
    Len(allowedRoles) >= 1 /\ roleName = allowedRoles[1]

RECURSIVE AnyAllowed(_, _, _)
\* inner loop of RoleMiddleware: userRole.Name == allowedRole for some allowedRole
AnyAllowed(roleName, allowedRoles, j) ==
    IF j > Len(allowedRoles) THEN FALSE
    ELSE IF roleName = allowedRoles[j] THEN TRUE
    ELSE AnyAllowed(roleName, allowedRoles, j + 1)

\* an outer loop that stops after the first role of the user
HasRoleFromFirstOnly(userRoles, allowedRoles, i) ==
    Len(userRoles) >= 1 /\ AnyAllowed(userRoles[1].name, allowedRoles, 1)

RECURSIVE HasRoleFrom(_, _, _)
\* outer loop of RoleMiddleware over userObj.Roles
HasRoleFrom(userRoles, allowedRoles, i) ==
    IF i > Len(userRoles) THEN FALSE
    ELSE IF AnyAllowed(userRoles[i].name, allowedRoles, 1) THEN TRUE
    ELSE HasRoleFrom(userRoles, allowedRoles, i + 1)

\* hasRole as RoleMiddleware(allowedRoles...) computes it
HasRole(userRoles, allowedRoles) == HasRoleFrom(userRoles, allowedRoles, 1)

\* a RoleMiddleware that writes the 403 but does not abort the chain
RoleMiddlewareRunNoAbort(user, allowedRoles) ==
    IF user = NoUser
    THEN [abort |-> TRUE, reply |-> Reply(StatusUnauthorized, "Unauthorized", NoData)]
    ELSE IF ~HasRole(user.roles, allowedRoles)
    THEN [abort |-> FALSE,
          reply |-> Reply(StatusForbidden, "Insufficient permissions", NoData)]
    ELSE [abort |-> FALSE, reply |-> Reply(0, "", NoData)]

\* RoleMiddleware(allowedRoles...) on the user AuthMiddleware put in the context
RoleMiddlewareRun(user, allowedRoles) ==
    IF user = NoUser
    THEN [abort |-> TRUE, reply |-> Reply(StatusUnauthorized, "Unauthorized", NoData)]
    ELSE IF ~HasRole(user.roles, allowedRoles)
    THEN [abort |-> TRUE,
          reply |-> Reply(StatusForbidden, "Insufficient permissions", NoData)]
    ELSE [abort |-> FALSE, reply |-> Reply(0, "", NoData)]

-----------------------------------------------------------------------------
(* internal/handlers/auth.go *)

\* the byte 0x00 bcrypt appends to the password, written as a character no
\* other input contains
NUL == "0"

\* the bytes of key the Blowfish key schedule of bcrypt reads
BcryptKeyBytes == 72

RECURSIVE Cycled(_, _)
\* blowfish.ExpandKey: the key is read cyclically, n bytes of it
Cycled(key, n) ==
    IF Len(key) >= n THEN SubSeq(key, 1, n) ELSE Cycled(key \o key, n)

\* bcrypt.GenerateFromPassword, the salt and the cost left out: the hash is a
\* function of the key bytes the key schedule reads
HashPassword(password) == [bcrypt |-> Cycled(password \o NUL, BcryptKeyBytes)]

\* bcrypt.CompareHashAndPassword(hash, password) == nil
CompareHashAndPassword(hash, password) == hash = HashPassword(password)

\* strings.TrimSpace: the white space at both ends cut off (ASCII)
TrimSpace(s) ==
    LET IsSpace(c) == c \in {" ", "\t", "\n", "\r"}
        RECURSIVE TrimLeft(_), TrimRight(_)
        TrimLeft(t) == IF Len(t) > 0 /\ IsSpace(SubSeq(t, 1, 1))
                       THEN TrimLeft(SubSeq(t, 2, Len(t))) ELSE t
        TrimRight(t) == IF Len(t) > 0 /\ IsSpace(SubSeq(t, Len(t), Len(t)))
                        THEN TrimRight(SubSeq(t, 1, Len(t) - 1)) ELSE t
    IN TrimRight(TrimLeft(s))

\* a ToLower that leaves the string as it is
ToLowerNone(s) == s

\* strings.ToLower: every upper-case letter replaced by its lower case (ASCII)
ToLower(s) ==
    LET Upper == "ABCDEFGHIJKLMNOPQRSTUVWXYZ"
        Lower == "abcdefghijklmnopqrstuvwxyz"
        LowerOf(c) == IF \E i \in 1..Len(Upper) : SubSeq(Upper, i, i) = c
                      THEN LET i == CHOOSE k \in 1..Len(Upper) : SubSeq(Upper, k, k) = c
                           IN SubSeq(Lower, i, i)
                      ELSE c
        RECURSIVE Map(_)
        Map(t) == IF Len(t) = 0 THEN ""
                  ELSE LowerOf(SubSeq(t, 1, 1)) \o Map(SubSeq(t, 2, Len(t)))
    IN Map(s)

\* what a handler leaves behind: its reply and the tables as it leaves them
Outcome(reply, newUsers, newRoles, newUserRoles) ==
    [reply |-> reply, users |-> newUsers, roles |-> newRoles, user_roles |-> newUserRoles]

Unchanged(reply) == Outcome(reply, users, roles, user_roles)

\* the data of a reply that carries a token pair
PairData(pair) ==
    [access_token |-> pair.access_token, refresh_token |-> pair.refresh_token]

\* LoginHandler
LoginHandlerRun(body, now1, now2) ==
    IF body.email = "" \/ body.password = ""
    THEN Reply(StatusBadRequest, "Invalid input", NoData)
    ELSE IF FirstByEmail(body.email) = {}
    THEN Reply(StatusUnauthorized, "Invalid email or password", NoData)
    ELSE LET user == LoadUser(CHOOSE u \in FirstByEmail(body.email) : TRUE, TRUE)
         IN IF ~CompareHashAndPassword(user.password, body.password)
            THEN Reply(StatusUnauthorized, "Invalid email or password", NoData)
            ELSE LET pair == GenerateTokenPair(user, now1, now2)
                 IN Reply(StatusOK, "",
                          [user |-> UserJSON(user),
                           access_token |-> pair.access_token,
                           refresh_token |-> pair.refresh_token])

\* a RefreshHandler that copies the role list of the presented token into the
\* new pair
RefreshHandlerRunRolesFromClaims(body, now, now1, now2) ==
    IF body.refresh_token = NoToken
    THEN Reply(StatusBadRequest, "Invalid input", NoData)
    ELSE LET v == ValidateRefreshToken(body.refresh_token, now)
         IN IF v.err # ""
            THEN Reply(StatusUnauthorized, "Invalid refresh token", NoData)
            ELSE IF FirstByID(v.claims.user_id) = {}
            THEN Reply(StatusUnauthorized, "User not found", NoData)
            ELSE LET user == [LoadUser(v.claims.user_id, FALSE) EXCEPT
                                 !.roles = [k \in DOMAIN v.claims.roles |->
                                               [id |-> 0, name |-> v.claims.roles[k]]]]
                     pair == GenerateTokenPair(user, now1, now2)
                 IN Reply(StatusOK, "", PairData(pair))

\* a RefreshHandler that hands the error of the validation to the caller
RefreshHandlerRunLeaky(body, now, now1, now2) ==
    IF body.refresh_token = NoToken
    THEN Reply(StatusBadRequest, "Invalid input", NoData)
    ELSE LET v == ValidateRefreshToken(body.refresh_token, now)
         IN IF v.err # ""
            THEN Reply(StatusUnauthorized, v.err, NoData)
            ELSE IF FirstByID(v.claims.user_id) = {}
            THEN Reply(StatusUnauthorized, "User not found", NoData)
            ELSE LET user == LoadUser(v.claims.user_id, TRUE)
                     pair == GenerateTokenPair(user, now1, now2)
                 IN Reply(StatusOK, "", PairData(pair))

\* a RefreshHandler that takes a token once: it refuses a token when a pair
\* has been signed for its subject after the token was
RefreshHandlerRunOnce(body, now, now1, now2) ==
    IF body.refresh_token = NoToken
    THEN Reply(StatusBadRequest, "Invalid input", NoData)
    ELSE LET v == ValidateRefreshToken(body.refresh_token, now)
         IN IF v.err # ""
            THEN Reply(StatusUnauthorized, "Invalid refresh token", NoData)
            ELSE IF \E i, j \in issued : /\ i.token = body.refresh_token
                                         /\ j.uid = i.uid
                                         /\ j.at > i.at
            THEN Reply(StatusUnauthorized, "Invalid refresh token", NoData)
            ELSE IF FirstByID(v.claims.user_id) = {}
            THEN Reply(StatusUnauthorized, "User not found", NoData)
            ELSE LET user == LoadUser(v.claims.user_id, TRUE)
                     pair == GenerateTokenPair(user, now1, now2)
                 IN Reply(StatusOK, "", PairData(pair))

\* RefreshHandler; now is the time of the validation, now1 and now2 those of
\* the two signings
RefreshHandlerRun(body, now, now1, now2) ==
    IF body.refresh_token = NoToken
    THEN Reply(StatusBadRequest, "Invalid input", NoData)
    ELSE LET v == ValidateRefreshToken(body.refresh_token, now)
         IN IF v.err # ""
            THEN Reply(StatusUnauthorized, "Invalid refresh token", NoData)
            ELSE IF FirstByID(v.claims.user_id) = {}
            THEN Reply(StatusUnauthorized, "User not found", NoData)
            ELSE LET user == LoadUser(v.claims.user_id, TRUE)
                     pair == GenerateTokenPair(user, now1, now2)
                 IN Reply(StatusOK, "", PairData(pair))

\* ProfileHandler, on the user the middleware put in the context
ProfileHandlerRun(ctxUser) ==
    IF ctxUser = NoUser
    THEN Reply(StatusUnauthorized, "Unauthorized", NoData)
    ELSE Reply(StatusOK, "", UserJSON(ctxUser))

\* GetAllUsersHandler
GetAllUsersHandlerRun ==
    LET ids == SetToSortedSeq({u \in DOMAIN users : Live(u)})
    IN Reply(StatusOK, "", [list |-> [i \in DOMAIN ids |-> UserJSON(LoadUser(ids[i], TRUE))]])

\* GetUserByIDHandler
GetUserByIDHandlerRun(userID) ==
    IF FirstByID(userID) = {}
    THEN Reply(StatusNotFound, "User not found", NoData)
    ELSE Reply(StatusOK, "", UserJSON(LoadUser(userID, TRUE)))

\* a DeleteUserHandler that answers as ever and sets no tombstone
DeleteUserHandlerRunNoTombstone(userID) ==
    IF FirstByID(userID) = {}
    THEN Unchanged(Reply(StatusNotFound, "User not found", NoData))
    ELSE Unchanged(Reply(StatusOK, "", [message |-> "User deleted successfully"]))

\* DeleteUserHandler: db.Delete on a model with DeletedAt sets the tombstone
DeleteUserHandlerRun(userID) ==
    IF FirstByID(userID) = {}
    THEN Unchanged(Reply(StatusNotFound, "User not found", NoData))
    ELSE Outcome(Reply(StatusOK, "", [message |-> "User deleted successfully"]),
                 [users EXCEPT ![userID].deleted = TRUE], roles, user_roles)

\* db.Create in place of db.FirstOrCreate: a new row whatever the table holds
CreateRole(name) == [id |-> Len(roles) + 1, roles |-> Append(roles, name)]

\* db.FirstOrCreate(&role, models.Role{Name: name}): the id of the role and
\* the roles table afterwards
FirstOrCreateRole(name) ==
    LET found == {i \in DOMAIN roles : roles[i] = name}
    IN IF found # {}
       THEN [id |-> CHOOSE i \in found : \A j \in found : i <= j, roles |-> roles]
       ELSE [id |-> Len(roles) + 1, roles |-> Append(roles, name)]

\* an AssignRoleHandler without the check "user already has this role"
AssignRoleNoCheck(userID, body) ==
    IF body.role_name = ""
    THEN [pass |-> FALSE, user |-> NoUser, role |-> 0,
          out |-> Unchanged(Reply(StatusBadRequest, "Invalid input", NoData))]
    ELSE IF FirstByID(userID) = {}
    THEN [pass |-> FALSE, user |-> NoUser, role |-> 0,
          out |-> Unchanged(Reply(StatusNotFound, "User not found", NoData))]
    ELSE LET role == FirstOrCreateRole(ToLower(TrimSpace(body.role_name)))
         IN [pass |-> TRUE, user |-> LoadUser(userID, TRUE), role |-> role.id,
             out |-> Outcome(Reply(0, "", NoData), users, role.roles, user_roles)]

\* an AssignRoleHandler that finds or creates the role before it looks for
\* the user
AssignRoleCheckRoleFirst(userID, body) ==
    IF body.role_name = ""
    THEN [pass |-> FALSE, user |-> NoUser, role |-> 0,
          out |-> Unchanged(Reply(StatusBadRequest, "Invalid input", NoData))]
    ELSE LET role == FirstOrCreateRole(ToLower(TrimSpace(body.role_name)))
         IN IF FirstByID(userID) = {}
            THEN [pass |-> FALSE, user |-> NoUser, role |-> 0,
                  out |-> Outcome(Reply(StatusNotFound, "User not found", NoData),
                                  users, role.roles, user_roles)]
            ELSE LET user == LoadUser(userID, TRUE)
                 IN IF \E i \in DOMAIN user.roles : user.roles[i].id = role.id
                    THEN [pass |-> FALSE, user |-> user, role |-> role.id,
                          out |-> Outcome(Reply(StatusBadRequest, "User already has this role",
                                                NoData),
                                          users, role.roles, user_roles)]
                    ELSE [pass |-> TRUE, user |-> user, role |-> role.id,
                          out |-> Outcome(Reply(0, "", NoData), users, role.roles, user_roles)]

\* the first half of AssignRoleHandler, up to the check "user already has
\* this role": either it has replied (pass is FALSE) or it goes on to append
\* role to user; out carries the roles table as FirstOrCreate left it
AssignRoleCheck(userID, body) ==
    IF body.role_name = ""
    THEN [pass |-> FALSE, user |-> NoUser, role |-> 0,
          out |-> Unchanged(Reply(StatusBadRequest, "Invalid input", NoData))]
    ELSE LET roleName == ToLower(TrimSpace(body.role_name))
         IN IF FirstByID(userID) = {}
            THEN [pass |-> FALSE, user |-> NoUser, role |-> 0,
                  out |-> Unchanged(Reply(StatusNotFound, "User not found", NoData))]
            ELSE LET user == LoadUser(userID, TRUE)
                     role == FirstOrCreateRole(roleName)
                 IN IF \E i \in DOMAIN user.roles : user.roles[i].id = role.id
                    THEN [pass |-> FALSE, user |-> user, role |-> role.id,
                          out |-> Outcome(Reply(StatusBadRequest, "User already has this role",
                                                NoData),
                                          users, role.roles, user_roles)]
                    ELSE [pass |-> TRUE, user |-> user, role |-> role.id,
                          out |-> Outcome(Reply(0, "", NoData), users, role.roles, user_roles)]

\* the second half of AssignRoleHandler: Association("Roles").Append(&role),
\* then the reload of the user, whose failure is not looked at
AssignRoleAppend(user, roleID) ==
    LET joined == JoinInsert(user_roles, <<user.id, roleID>>)
        rids == SetToSortedSeq({ur[2] : ur \in {x \in BagToSet(joined) : x[1] = user.id}})
        reloaded == IF Live(user.id)
                    THEN [LoadUser(user.id, FALSE) EXCEPT !.roles =
                             [i \in DOMAIN rids |-> Role(rids[i])]]
                    ELSE user
    IN Outcome(Reply(StatusOK, "", UserJSON(reloaded)), users, roles, joined)

\* RemoveRoleHandler
RemoveRoleHandlerRun(userID, body) ==
    IF body.role_name = ""
    THEN Unchanged(Reply(StatusBadRequest, "Invalid input", NoData))
    ELSE LET roleName == ToLower(TrimSpace(body.role_name))
         IN IF FirstByID(userID) = {}
            THEN Unchanged(Reply(StatusNotFound, "User not found", NoData))
            ELSE LET user == LoadUser(userID, TRUE)
                     hits == {i \in DOMAIN user.roles : user.roles[i].name = roleName}
                 IN IF hits = {}
                    THEN Unchanged(Reply(StatusBadRequest, "User doesn't have this role", NoData))
                    ELSE LET roleToRemove == user.roles[CHOOSE i \in hits : \A j \in hits : i <= j]
                             left == JoinDelete(user_roles, <<userID, roleToRemove.id>>)
                             rids == SetToSortedSeq({ur[2] : ur \in {x \in BagToSet(left) : x[1] = userID}})
                             reloaded == [user EXCEPT !.roles = [i \in DOMAIN rids |-> Role(rids[i])]]
                         IN Outcome(Reply(StatusOK, "", UserJSON(reloaded)), users, roles, left)

\* userID == string(rune(currentUserObj.ID)) in UpdateUserHandler: the
\* conversion gives the one character whose code point is the id, and userID
\* is the decimal numeral of the path, so the two are equal only for a one
\* digit numeral whose character code ('0' is 48) is the id
ParamIsRuneOf(userID, id) == userID \in 0..9 /\ id = 48 + userID

\* the first half of UpdateUserHandler, on the user the middleware put in
\* the context, up to db.First(&user, userID): either it has replied (pass is
\* FALSE) or it goes on with the row it read
UpdateUserHandlerRun(ctxUser, userID, body) ==
    IF body.name # "" /\ Len(body.name) < 2
    THEN [pass |-> FALSE, user |-> NoUser,
          out |-> Unchanged(Reply(StatusBadRequest, "Invalid input", NoData))]
    ELSE IF ctxUser = NoUser
    THEN [pass |-> FALSE, user |-> NoUser,
          out |-> Unchanged(Reply(StatusUnauthorized, "Unauthorized", NoData))]
    ELSE IF /\ ~ParamIsRuneOf(userID, ctxUser.id)
            /\ ~\E i \in DOMAIN ctxUser.roles : ctxUser.roles[i].name = "admin"
    THEN [pass |-> FALSE, user |-> NoUser,
          out |-> Unchanged(Reply(StatusForbidden, "Forbidden", NoData))]
    ELSE IF FirstByID(userID) = {}
    THEN [pass |-> FALSE, user |-> NoUser,
          out |-> Unchanged(Reply(StatusNotFound, "User not found", NoData))]
    ELSE [pass |-> TRUE, user |-> LoadUser(userID, FALSE),
          out |-> Unchanged(Reply(0, "", NoData))]

\* an update that writes every field of the request, the empty ones as well
UpdateUserSaveEveryField(user, body) ==
    LET row == [email |-> user.email, password |-> user.password, name |-> body.name,
                profile |-> body.profile, deleted |-> FALSE]
        saved == [users EXCEPT ![user.id] = row]
        rids == SetToSortedSeq({ur[2] : ur \in {x \in BagToSet(user_roles) : x[1] = user.id}})
    IN Outcome(Reply(StatusOK, "",
                     UserJSON([id |-> user.id, email |-> row.email, password |-> row.password,
                               name |-> row.name, profile |-> row.profile,
                               roles |-> [i \in DOMAIN rids |-> Role(rids[i])]])),
               saved, roles, user_roles)

\* the second half of UpdateUserHandler: the fields the request carries are
\* set in the struct read before, db.Save writes the struct, the user is
\* read again with its roles. db.Save updates every column of the row of that
\* id WHERE deleted_at IS NULL and, when that touches no row, inserts the
\* struct ON CONFLICT (id) DO UPDATE of every column: either way the row
\* becomes the struct, whose DeletedAt is the NULL it was read with
UpdateUserSave(user, body) ==
    LET set(old, new, zero) == IF new # zero THEN new ELSE old
        row == [email |-> user.email,
                password |-> user.password,
                name |-> set(user.name, body.name, ""),
                profile |->
                    [tel |-> set(user.profile.tel, body.profile.tel, ""),
                     age |-> set(user.profile.age, body.profile.age, 0),
                     address |-> set(user.profile.address, body.profile.address, ""),
                     city |-> set(user.profile.city, body.profile.city, ""),
                     country |-> set(user.profile.country, body.profile.country, ""),
                     gender |-> set(user.profile.gender, body.profile.gender, "")],
                deleted |-> FALSE]
        saved == [users EXCEPT ![user.id] = row]
        rids == SetToSortedSeq({ur[2] : ur \in {x \in BagToSet(user_roles) : x[1] = user.id}})
    IN Outcome(Reply(StatusOK, "",
                     UserJSON([id |-> user.id, email |-> row.email, password |-> row.password,
                               name |-> row.name, profile |-> row.profile,
                               roles |-> [i \in DOMAIN rids |-> Role(rids[i])]])),
               saved, roles, user_roles)

\* the addresses the "email" binding accepts among the emails requests carry
IsEmail(s) == s \in {"admin@x.com", "a@x.com", "b@x.com", "nobody@x.com"}

\* the first half of RegisterHandler: ShouldBindJSON and the lookup of an
\* existing user of that email; TRUE in pass when it goes on to create
RegisterCheck(body) ==
    IF ~IsEmail(body.email) \/ Len(body.password) < 8 \/ Len(body.name) < 2
    THEN [pass |-> FALSE, reply |-> Reply(StatusBadRequest, "Invalid input", NoData)]
    ELSE IF FirstByEmail(body.email) # {}
    THEN [pass |-> FALSE, reply |-> Reply(StatusBadRequest, "User already exists", NoData)]
    ELSE [pass |-> TRUE, reply |-> Reply(0, "", NoData)]

\* a users table with no unique index on email
EmailTakenNever(email) == FALSE

\* the unique index on users.email: it covers soft-deleted rows as well
EmailTaken(email) == \E u \in DOMAIN users : users[u].email = email

\* the second half of RegisterHandler: FirstOrCreate of the role "user",
\* db.Create of the user with that role, reload, GenerateTokenPair
RegisterCreate(body, now1, now2) ==
    LET role == FirstOrCreateRole("user")
    IN IF EmailTaken(body.email)
       THEN Outcome(Reply(StatusInternalServerError, "Failed to create user", NoData),
                    users, role.roles, user_roles)
       ELSE LET id == Len(users) + 1
                newUser == [id |-> id, email |-> body.email,
                            password |-> HashPassword(body.password), name |-> body.name,
                            profile |-> NoProfile,
                            roles |-> <<[id |-> role.id, name |-> role.roles[role.id]]>>]
                pair == GenerateTokenPair(newUser, now1, now2)
            IN Outcome(Reply(StatusCreated, "",
                             [user |-> UserJSON(newUser),
                              access_token |-> pair.access_token,
                              refresh_token |-> pair.refresh_token]),
                       Append(users, [email |-> body.email,
                                      password |-> HashPassword(body.password),
                                      name |-> body.name, profile |-> NoProfile,
                                      deleted |-> FALSE]),
                       role.roles,
                       JoinInsert(user_roles, <<id, role.id>>))

-----------------------------------------------------------------------------
(* Inputs *)

EmailInputs == {users[i].email : i \in DOMAIN users} \cup {"nobody@x.com"}
PasswordInputs == {"adminpass", "pass1234"}
RoleNameInputs == {"admin", "user"}
IdParams == 1..(Len(users) + 1)

IssuedTokens == {i.token : i \in issued}

\* claims an attacker writes for itself
ForgedClaims ==
    [user_id |-> 2, email |-> "a@x.com", name |-> "A", roles |-> <<"admin">>,
     exp |-> NewNumericDate(clock + RefreshDuration),
     iat |-> NewNumericDate(clock), nbf |-> NewNumericDate(clock), iss |-> Issuer]

\* a token signed under a key that is not the service's
ForeignToken == TokenString(SignedString("HS256", otherKey, ForgedClaims))

\* tokens made without GenerateTokenPair: signed under another key, unsigned,
\* or under another HMAC method
ScratchTokens ==
    {ForeignToken,
     TokenString(SignedString("none", otherKey, ForgedClaims)),
     TokenString(SignedString("HS384", otherKey, ForgedClaims)),
     TokenString(SignedString("HS384", secretKey, ForgedClaims))}

\* an issued token with its payload or header altered and its signature kept
Altered(ts) ==
    {TokenString([ts[1] EXCEPT !.claims.roles = <<"admin">>]),
     TokenString([ts[1] EXCEPT !.claims.exp = @ + NewNumericDate(RefreshDuration)]),
     TokenString([ts[1] EXCEPT !.header.alg = "none"])} \ {ts}

AlteredTokens == UNION {Altered(ts) : ts \in IssuedTokens}

NotATokenString == <<Ch("x")>>

\* the token strings handed to the token service on its own
TokenInputs == IssuedTokens \cup ScratchTokens \cup AlteredTokens \cup {NotATokenString}

BadHeaders ==
    {<<>>,
     <<Ch("B"), Ch("a"), Ch("s"), Ch("i"), Ch("c"), Ch(" ")>> \o NotATokenString,
     <<Ch("b"), Ch("e"), Ch("a"), Ch("r"), Ch("e"), Ch("r"), Ch(" ")>> \o NotATokenString,
     <<Ch("B"), Ch("e"), Ch("a"), Ch("r"), Ch("e"), Ch("r")>>}

GoodHeaders == {bearerScheme \o ts : ts \in IssuedTokens}
OtherHeaders == {bearerScheme \o ForeignToken, bearerScheme} \cup BadHeaders

\* the headers that carry an issued access token
AccessHeaders == {bearerScheme \o i.token : i \in {j \in issued : j.kind = "access"}}

NameInputs == {"Bo", "x"}

\* parameters and bodies a route takes
RouteInputs(route) ==
    CASE route \in {"profile", "users_list"} -> {[id |-> 0, body |-> EmptyBody]}
      [] route \in {"users_get", "users_delete"} ->
            {[id |-> i, body |-> EmptyBody] : i \in IdParams}
      [] route = "users_put" ->
            {[id |-> 2, body |-> WithName(EmptyBody, n)] : n \in NameInputs}
                \cup {[id |-> Len(users) + 1, body |-> WithName(EmptyBody, "Bo")]}
      [] route \in {"roles_assign", "roles_remove"} ->
            {[id |-> i, body |-> Body("", "", NoToken, n)] :
                i \in IdParams, n \in RoleNameInputs}
            \cup {[id |-> 2, body |-> EmptyBody]}

\* one input of each route, for the requests that never reach its handler
RouteDefault(route) ==
    CASE route \in {"profile", "users_list"} -> [id |-> 0, body |-> EmptyBody]
      [] route \in {"users_get", "users_delete"} -> [id |-> 2, body |-> EmptyBody]
      [] route = "users_put" -> [id |-> 2, body |-> WithName(EmptyBody, "Bo")]
      [] route \in {"roles_assign", "roles_remove"} ->
            [id |-> 2, body |-> Body("", "", NoToken, "admin")]

\* more than one worker serves: requests overlap in time
Overlapping == Cardinality(serving) > 1

\* the routes that write to the directory, and the inputs they are given
\* where requests overlap
WritingRoutes == {"users_put", "users_delete", "roles_assign", "roles_remove"}

WritingInputs(route) ==
    CASE route = "users_delete" -> {[id |-> 2, body |-> EmptyBody]}
      [] route = "users_put" ->
            {[id |-> i, body |-> WithName(EmptyBody, "Bo")] : i \in DOMAIN users}
      [] route \in {"roles_assign", "roles_remove"} ->
            {[id |-> 2, body |-> Body("", "", NoToken, n)] :
                n \in RoleNameInputs \cup {" Admin ", "ADMIN", "Editor "}}

WritingRequests ==
    UNION {{Request(route, h, x.id, x.body) : h \in AccessHeaders, x \in WritingInputs(route)}
           : route \in WritingRoutes}

\* requests to protected routes: every route input under a header carrying an
\* issued token, one input of every route under a header carrying a foreign
\* token, and one input of an ungated and of a gated route under every other
\* header
SerialRequests ==
    UNION {{Request(route, h, x.id, x.body) : h \in GoodHeaders, x \in RouteInputs(route)}
             \cup {Request(route, h, RouteDefault(route).id, RouteDefault(route).body) :
                     h \in IF route \in {"profile", "users_list"}
                            THEN OtherHeaders
                            ELSE {bearerScheme \o ForeignToken}}
           : route \in ProtectedRoutes}

\* the requests to protected routes the workers are given
ProtectedRequests == IF Overlapping THEN WritingRequests ELSE SerialRequests

RegisterBodies ==
    {WithName(Body(e, "pass1234", NoToken, ""), "Bo") : e \in {"a@x.com", "b@x.com"}}
        \cup {WithName(Body("b@x.com", "short", NoToken, ""), "Bo")}

\* the bodies of login requests; one password is that of a@x.com, the byte
\* 0x00, and the same password again
LoginBodies ==
    {Body(e, pw, NoToken, "") : e \in EmailInputs, pw \in PasswordInputs}
        \cup {Body("a@x.com", "pass1234" \o NUL \o "pass1234", NoToken, ""), EmptyBody}

RefreshBodies ==
    {Body("", "", ts, "") : ts \in IssuedTokens \cup {ForeignToken, NoToken}}

\* delays between the two time.Now() readings of one GenerateTokenPair
SignDelays == IF nadv < MaxAdvances THEN {0, 1} ELSE {0}

-----------------------------------------------------------------------------
(* State machine *)

\* the passwords the two identities of the start-up state registered with
InitPasswords == <<"adminpass", "pass1234">>

InitUsers ==
    <<[email |-> "admin@x.com", password |-> HashPassword(InitPasswords[1]),
       name |-> "Admin", profile |-> NoProfile, deleted |-> FALSE],
      [email |-> "a@x.com", password |-> HashPassword(InitPasswords[2]),
       name |-> "A", profile |-> [NoProfile EXCEPT !.city = "Ohrid"], deleted |-> FALSE]>>

\* main: db.FirstOrCreate of the roles "user" and "admin"
InitRoles == <<"user", "admin">>

\* user 1 holds "user" and "admin" (promoted in the database, as the README
\* describes), user 2 holds "user"
InitUserRoles == SetToBag({<<1, 1>>, <<1, 2>>, <<2, 1>>})

AzIdle == [roles |-> <<>>, allowed |-> <<>>]

InitIdle ==
    /\ issued = {}
    /\ req = [w \in Workers |-> IdleReq]
    /\ resp = NoResponse
    /\ nadv = 0
    /\ nreq = 0

\* the server after main has run, serving one request at a time
Init ==
    /\ clock = 0
    /\ users = InitUsers
    /\ roles = InitRoles
    /\ user_roles = InitUserRoles
    /\ serving = {"w1"}
    /\ InitIdle
    /\ azIn = AzIdle
    /\ azOut = "none"
    /\ proc = Started

\* the response of a request, with the stages it went through, the context
\* values the chain had set, the role names the directory held for the
\* identity when LoadIdentity read it, and the time the request was taken
Response(r, reply, stages, claims, user, seen, at) ==
    [req |-> r, status |-> reply.status, error |-> reply.error, data |-> reply.data,
     stages |-> stages, claims |-> claims, user |-> user, seen |-> seen, at |-> at]

\* the role names joined to a user in the directory
DirRoleNames(uid) == {roles[x[2]] : x \in {y \in BagToSet(user_roles) : y[1] = uid}}

\* history of GenerateTokenPair: who the pair was signed for, when, and the
\* role names the directory held for that user at that time
IssuedFor(pair, uid, roleNames, now1, now2) ==
    {[token |-> pair.access_token, kind |-> "access", at |-> now1, uid |-> uid,
      roles |-> roleNames],
     [token |-> pair.refresh_token, kind |-> "refresh", at |-> now2, uid |-> uid,
      roles |-> roleNames]}

IssuedBy(pair, uid, now1, now2) ==
    IssuedFor(pair, uid, RoleNames(PreloadRoles(uid)), now1, now2)

\* the requests a run takes: fewer where they overlap
RequestBudget == IF Overlapping THEN MaxOverlapping ELSE MaxRequests

CanIssue == Cardinality(issued) + 2 <= 2 * MaxPairs

Quiet == \A w \in Workers : req[w].pc = "idle"

\* the last response has gone out to its client
Sent == resp = NoResponse

\* a worker may take a request: with one worker serving, requests run one
\* after the other
MayStart == Cardinality(serving) > 1 \/ Quiet

ExpiryTimes == {NumericDateTime(i.token[1].claims.exp) : i \in issued}

\* time passes, up to the expiry of an issued token
Tick ==
    /\ Sent
    /\ nadv < MaxAdvances
    /\ MayStart
    /\ \E t \in ExpiryTimes : t > clock /\ clock' = t
    /\ nadv' = nadv + 1
    /\ resp' = NoResponse
    /\ UNCHANGED <<users, roles, user_roles, issued, req, nreq, serving, proc, azIn, azOut>>

\* time passes, by one tick or up to the last tick before an expiry
TickNear ==
    /\ Sent
    /\ nadv < MaxAdvances
    /\ MayStart
    /\ \E t \in {clock + 1} \cup {e - 1 : e \in ExpiryTimes} : t > clock /\ clock' = t
    /\ nadv' = nadv + 1
    /\ resp' = NoResponse
    /\ UNCHANGED <<users, roles, user_roles, issued, req, nreq, serving, proc, azIn, azOut>>

Advanced(d) == IF d > 0 THEN 1 ELSE 0

\* POST /api/auth/login
Login ==
    /\ Sent
    /\ nreq < RequestBudget
    /\ MayStart
    /\ \E body \in LoginBodies, d \in SignDelays :
         LET reply == LoginHandlerRun(body, clock, clock + d)
             r == Request("login", <<>>, 0, body)
         IN IF reply.status = StatusOK
            THEN /\ CanIssue
                 /\ clock' = clock + d
                 /\ nadv' = nadv + Advanced(d)
                 /\ issued' = issued \cup
                        IssuedBy(reply.data, reply.data.user.id, clock, clock + d)
                 /\ resp' = Response(r, reply, <<"Dispatch">>, NoClaims, NoUser, {}, clock)
            ELSE /\ d = 0
                 /\ UNCHANGED <<clock, nadv, issued>>
                 /\ resp' = Response(r, reply, <<"Dispatch">>, NoClaims, NoUser, {}, clock)
    /\ nreq' = nreq + 1
    /\ UNCHANGED <<users, roles, user_roles, req, serving, proc, azIn, azOut>>

\* POST /api/auth/refresh
Refresh ==
    /\ Sent
    /\ nreq < RequestBudget
    /\ MayStart
    /\ \E body \in RefreshBodies, d \in SignDelays :
         LET reply == RefreshHandlerRun(body, clock, clock, clock + d)
             r == Request("refresh", <<>>, 0, body)
         IN IF reply.status = StatusOK
            THEN /\ CanIssue
                 /\ clock' = clock + d
                 /\ nadv' = nadv + Advanced(d)
                 /\ issued' = issued \cup
                        IssuedBy(reply.data, reply.data.access_token[1].claims.user_id,
                                 clock, clock + d)
                 /\ resp' = Response(r, reply, <<"Dispatch">>, NoClaims, NoUser, {}, clock)
            ELSE /\ d = 0
                 /\ UNCHANGED <<clock, nadv, issued>>
                 /\ resp' = Response(r, reply, <<"Dispatch">>, NoClaims, NoUser, {}, clock)
    /\ nreq' = nreq + 1
    /\ UNCHANGED <<users, roles, user_roles, req, serving, proc, azIn, azOut>>

\* one of the requests to protected routes enters the chain: AuthMiddleware
AuthMiddlewareOn(w, requests) ==
    /\ Sent
    /\ w \in serving
    /\ req[w].pc = "idle"
    /\ nreq < RequestBudget
    /\ MayStart
    /\ \E r \in requests :
         LET res == AuthMiddlewareRun(r, clock)
         IN IF res.abort
            THEN /\ resp' = Response(r, res.reply, res.stages, res.claims, res.user, {}, clock)
                 /\ req' = req
            ELSE /\ resp' = NoResponse
                 /\ req' = [req EXCEPT ![w] =
                        [pc |-> IF RoleGated(r.route) THEN "role" ELSE "handler",
                         r |-> r, stages |-> res.stages,
                         claims |-> res.claims, user |-> res.user,
                         seen |-> DirRoleNames(res.user.id), at |-> clock]]
    /\ nreq' = nreq + 1
    /\ UNCHANGED <<clock, users, roles, user_roles, issued, nadv, serving, proc, azIn, azOut>>

\* a request to a protected route enters the chain
AuthMiddleware(w) == AuthMiddlewareOn(w, ProtectedRequests)

\* RoleMiddleware of the /users group
RoleMiddleware(w) ==
    /\ Sent
    /\ req[w].pc = "role"
    /\ LET res == RoleMiddlewareRun(req[w].user, AllowedRoles(req[w].r.route))
           stages == req[w].stages \o <<"Authorize">>
       IN IF res.abort
          THEN /\ resp' = Response(req[w].r, res.reply, stages, req[w].claims, req[w].user,
                                  req[w].seen, req[w].at)
               /\ req' = [req EXCEPT ![w] = IdleReq]
          ELSE /\ resp' = NoResponse
               /\ req' = [req EXCEPT ![w].pc = "handler", ![w].stages = stages]
    /\ UNCHANGED <<clock, users, roles, user_roles, issued, nadv, nreq, serving, proc, azIn, azOut>>

\* handlers that look the caller up again and refuse when it is gone or no
\* longer holds "admin"
HandlerRunRechecked(w) ==
    LET r == req[w].r
    IN IF r.route \in UsersRoutes
          /\ (~Live(req[w].user.id) \/ "admin" \notin DirRoleNames(req[w].user.id))
       THEN Unchanged(Reply(StatusForbidden, "Insufficient permissions", NoData))
       ELSE CASE r.route = "profile" -> Unchanged(ProfileHandlerRun(req[w].user))
              [] r.route = "users_list" -> Unchanged(GetAllUsersHandlerRun)
              [] r.route = "users_get" -> Unchanged(GetUserByIDHandlerRun(r.id))
              [] r.route = "users_put" ->
                    UpdateUserHandlerRun(req[w].user, r.id, r.body).out
              [] r.route = "users_delete" -> DeleteUserHandlerRun(r.id)
              [] r.route = "roles_assign" -> AssignRoleCheck(r.id, r.body).out
              [] r.route = "roles_remove" -> RemoveRoleHandlerRun(r.id, r.body)

\* the handler of the route the request is for; of AssignRoleHandler its
\* first half
HandlerRun(w) ==
    LET r == req[w].r
    IN CASE r.route = "profile" -> Unchanged(ProfileHandlerRun(req[w].user))
         [] r.route = "users_list" -> Unchanged(GetAllUsersHandlerRun)
         [] r.route = "users_get" -> Unchanged(GetUserByIDHandlerRun(r.id))
         [] r.route = "users_put" -> UpdateUserHandlerRun(req[w].user, r.id, r.body).out
         [] r.route = "users_delete" -> DeleteUserHandlerRun(r.id)
         [] r.route = "roles_assign" -> AssignRoleCheck(r.id, r.body).out
         [] r.route = "roles_remove" -> RemoveRoleHandlerRun(r.id, r.body)

Handler(w) ==
    /\ Sent
    /\ req[w].pc = "handler"
    /\ LET out == HandlerRun(w)
           r == req[w].r
           stages == req[w].stages \o <<"Dispatch">>
       IN /\ users' = out.users
          /\ roles' = out.roles
          /\ user_roles' = out.user_roles
          /\ IF r.route = "users_put" /\ UpdateUserHandlerRun(req[w].user, r.id, r.body).pass
             THEN /\ resp' = NoResponse
                  /\ req' = [req EXCEPT ![w] =
                         [pc |-> "save", r |-> r, stages |-> stages,
                          claims |-> req[w].claims, user |-> req[w].user,
                          seen |-> req[w].seen, at |-> req[w].at,
                          target |-> UpdateUserHandlerRun(req[w].user, r.id, r.body).user]]
             ELSE IF r.route = "roles_assign" /\ AssignRoleCheck(r.id, r.body).pass
             THEN /\ resp' = NoResponse
                  /\ req' = [req EXCEPT ![w] =
                         [pc |-> "append", r |-> r, stages |-> stages,
                          claims |-> req[w].claims, user |-> req[w].user,
                          seen |-> req[w].seen, at |-> req[w].at,
                          target |-> AssignRoleCheck(r.id, r.body).user,
                          role |-> AssignRoleCheck(r.id, r.body).role]]
             ELSE /\ resp' = Response(r, out.reply, stages, req[w].claims, req[w].user,
                                      req[w].seen, req[w].at)
                  /\ req' = [req EXCEPT ![w] = IdleReq]
    /\ UNCHANGED <<clock, issued, nadv, nreq, serving, proc, azIn, azOut>>

\* AssignRoleHandler from Association("Roles").Append on
AssignAppend(w) ==
    /\ Sent
    /\ req[w].pc = "append"
    /\ LET out == AssignRoleAppend(req[w].target, req[w].role)
       IN /\ users' = out.users
          /\ roles' = out.roles
          /\ user_roles' = out.user_roles
          /\ resp' = Response(req[w].r, out.reply, req[w].stages, req[w].claims,
                              req[w].user, req[w].seen, req[w].at)
    /\ req' = [req EXCEPT ![w] = IdleReq]
    /\ UNCHANGED <<clock, issued, nadv, nreq, serving, proc, azIn, azOut>>

\* UpdateUserHandler from the assignments to the struct on
UpdateSave(w) ==
    /\ Sent
    /\ req[w].pc = "save"
    /\ LET out == UpdateUserSave(req[w].target, req[w].r.body)
       IN /\ users' = out.users
          /\ roles' = out.roles
          /\ user_roles' = out.user_roles
          /\ resp' = Response(req[w].r, out.reply, req[w].stages, req[w].claims,
                              req[w].user, req[w].seen, req[w].at)
    /\ req' = [req EXCEPT ![w] = IdleReq]
    /\ UNCHANGED <<clock, issued, nadv, nreq, serving, proc, azIn, azOut>>

\* POST /api/auth/register, up to the lookup of an existing user
Register(w) ==
    /\ Sent
    /\ w \in serving
    /\ req[w].pc = "idle"
    /\ nreq < RequestBudget
    /\ MayStart
    /\ \E body \in RegisterBodies :
         LET chk == RegisterCheck(body)
             r == Request("register", <<>>, 0, body)
         IN IF chk.pass
            THEN /\ resp' = NoResponse
                 /\ req' = [req EXCEPT ![w] =
                        [pc |-> "create", r |-> r, stages |-> <<"Dispatch">>,
                         claims |-> NoClaims, user |-> NoUser, seen |-> {}, at |-> clock]]
            ELSE /\ resp' = Response(r, chk.reply, <<"Dispatch">>, NoClaims, NoUser, {}, clock)
                 /\ req' = req
    /\ nreq' = nreq + 1
    /\ UNCHANGED <<clock, users, roles, user_roles, issued, nadv, serving, proc, azIn, azOut>>

\* RegisterHandler from the FirstOrCreate of the default role on
RegisterSave(w) ==
    /\ Sent
    /\ req[w].pc = "create"
    /\ \E d \in SignDelays :
         LET out == RegisterCreate(req[w].r.body, clock, clock + d)
         IN /\ users' = out.users
            /\ roles' = out.roles
            /\ user_roles' = out.user_roles
            /\ resp' = Response(req[w].r, out.reply, req[w].stages, NoClaims, NoUser, {},
                                req[w].at)
            /\ IF out.reply.status = StatusCreated
               THEN /\ CanIssue
                    /\ clock' = clock + d
                    /\ nadv' = nadv + Advanced(d)
                    /\ issued' = issued \cup
                           IssuedFor(out.reply.data, out.reply.data.user.id,
                                     RoleNames(out.reply.data.user.roles), clock, clock + d)
               ELSE /\ d = 0
                    /\ UNCHANGED <<clock, nadv, issued>>
    /\ req' = [req EXCEPT ![w] = IdleReq]
    /\ UNCHANGED <<nreq, serving, proc, azIn, azOut>>

\* the response written by the last step goes out to the client
Deliver ==
    /\ ~Sent
    /\ resp' = NoResponse
    /\ UNCHANGED <<clock, users, roles, user_roles, issued, req, nadv, nreq, serving, proc,
                   azIn, azOut>>

Next ==
    \/ Deliver
    \/ Tick
    \/ Login
    \/ Refresh
    \/ \E w \in Workers : AuthMiddleware(w)
    \/ \E w \in Workers : RoleMiddleware(w)
    \/ \E w \in Workers : Handler(w)
    \/ \E w \in Workers : UpdateSave(w)
    \/ \E w \in Workers : AssignAppend(w)

Spec == Init /\ [][Next]_vars

-----------------------------------------------------------------------------
(* Requests that overlap: two workers, registration and the routes that write
   to the directory *)

\* the server after main has run and the admin has logged in
InitSeeded ==
    /\ users = InitUsers
    /\ roles = InitRoles
    /\ user_roles = InitUserRoles
    /\ issued = IssuedBy(GenerateTokenPair(LoadUser(1, TRUE), 0, 0), 1, 0, 0)

\* the server on an empty database whose roles were not seeded: main does not
\* look at the errors of its two FirstOrCreate calls
InitUnseeded ==
    /\ users = <<>>
    /\ roles = <<>>
    /\ user_roles = EmptyBag
    /\ issued = {}

InitOverlapping ==
    /\ clock = 0
    /\ InitSeeded \/ InitUnseeded
    /\ serving = Workers
    /\ req = [w \in Workers |-> IdleReq]
    /\ resp = NoResponse
    /\ nadv = 0
    /\ nreq = 0
    /\ azIn = AzIdle
    /\ azOut = "none"
    /\ proc = Started

NextOverlapping ==
    \/ Deliver
    \/ \E w \in Workers : Register(w)
    \/ \E w \in Workers : RegisterSave(w)
    \/ \E w \in Workers : AuthMiddleware(w)
    \/ \E w \in Workers : RoleMiddleware(w)
    \/ \E w \in Workers : Handler(w)
    \/ \E w \in Workers : UpdateSave(w)
    \/ \E w \in Workers : AssignAppend(w)

SpecOverlapping == InitOverlapping /\ [][NextOverlapping]_vars

-----------------------------------------------------------------------------
(* Writers on one identity: updates of different profile fields, the deletion
   of the identity and of the caller, the caller's "admin" role removed; one
   request at a time, or two that overlap *)

ProfileRequests ==
    LET put(body) == [id |-> 2, body |-> body]
        inputs ==
            [users_put |->
                 {put(WithName(EmptyBody, "Bo")),
                  put([EmptyBody EXCEPT !.profile.tel = "555", !.profile.age = 30]),
                  put([EmptyBody EXCEPT !.profile.city = "Bitola"])},
             users_delete |-> {[id |-> i, body |-> EmptyBody] : i \in {1, 2}},
             roles_remove |-> {[id |-> 1, body |-> Body("", "", NoToken, "admin")]},
             roles_assign |-> {[id |-> 2, body |-> Body("", "", NoToken, "admin")]}]
    IN UNION {{Request(route, h, x.id, x.body) : h \in AccessHeaders, x \in inputs[route]}
              : route \in DOMAIN inputs}

InitProfile ==
    /\ clock = 0
    /\ InitSeeded
    /\ serving \in {{"w1"}, Workers}
    /\ req = [w \in Workers |-> IdleReq]
    /\ resp = NoResponse
    /\ nadv = 0
    /\ nreq = 0
    /\ azIn = AzIdle
    /\ azOut = "none"
    /\ proc = Started

NextProfile ==
    \/ Deliver
    \/ \E w \in Workers : AuthMiddlewareOn(w, ProfileRequests)
    \/ \E w \in Workers : RoleMiddleware(w)
    \/ \E w \in Workers : Handler(w)
    \/ \E w \in Workers : UpdateSave(w)
    \/ \E w \in Workers : AssignAppend(w)

SpecProfile == InitProfile /\ [][NextProfile]_vars

-----------------------------------------------------------------------------
(* The serial server with a directory whose queries may fail *)

\* a request to a protected route reaches the query of AuthMiddleware and
\* the query fails
AuthMiddlewareFailing(w) ==
    /\ Sent
    /\ w \in serving
    /\ req[w].pc = "idle"
    /\ nreq < RequestBudget
    /\ MayStart
    /\ \E r \in ProtectedRequests :
         LET res == AuthMiddlewareRunFailing(r, clock)
         IN /\ Len(res.stages) = 3
            /\ resp' = Response(r, res.reply, res.stages, res.claims, res.user, {}, clock)
    /\ nreq' = nreq + 1
    /\ UNCHANGED <<clock, users, roles, user_roles, issued, req, nadv, serving, proc,
                   azIn, azOut>>

NextFailing ==
    \/ Deliver
    \/ Login
    \/ \E w \in Workers : AuthMiddleware(w)
    \/ \E w \in Workers : AuthMiddlewareFailing(w)
    \/ \E w \in Workers : RoleMiddleware(w)
    \/ \E w \in Workers : Handler(w)
    \/ \E w \in Workers : UpdateSave(w)
    \/ \E w \in Workers : AssignAppend(w)

SpecFailing == Init /\ [][NextFailing]_vars

-----------------------------------------------------------------------------
(* Start-up: main in every environment, on a new and on a used database, and
   the public routes once the server listens *)

\* the process is about to enter main, each variable of its environment
\* unset, empty or set
InitStartup ==
    /\ clock = 0
    /\ \/ users = InitUsers /\ roles = InitRoles /\ user_roles = InitUserRoles
       \/ users = <<>> /\ roles = <<>> /\ user_roles = EmptyBag
    /\ serving = {"w1"}
    /\ InitIdle
    /\ azIn = AzIdle
    /\ azOut = "none"
    /\ \E S \in SUBSET DOMAIN Started.env : \E E \in SUBSET S :
          proc = [pc |-> "main", addr |-> "", log |-> "",
                  env |-> [k \in S |-> IF k \in E THEN "" ELSE Started.env[k]]]

\* main runs, to log.Fatal or to router.Run; each of its calls to the
\* database and to the network succeeds or fails
Main ==
    /\ proc.pc = "main"
    /\ \E ok \in [open : BOOLEAN, migrate : BOOLEAN, seedUser : BOOLEAN,
                  seedAdmin : BOOLEAN, listen : BOOLEAN] :
          LET out == MainRun(proc.env, roles, ok)
          IN /\ proc' = [pc |-> out.pc, env |-> out.env, addr |-> out.addr, log |-> out.log]
             /\ roles' = out.roles
    /\ UNCHANGED <<clock, users, user_roles, issued, req, resp, nadv, nreq, serving,
                   azIn, azOut>>

\* the routes are served once router.Run has been reached
NextStartup ==
    \/ Main
    \/ proc.pc = "serving" /\ Deliver
    \/ proc.pc = "serving" /\ Login
    \/ proc.pc = "serving" /\ \E w \in Workers : Register(w)
    \/ proc.pc = "serving" /\ \E w \in Workers : RegisterSave(w)

SpecStartup == InitStartup /\ [][NextStartup]_vars

-----------------------------------------------------------------------------
(* The token service on its own: issue_pair and validate over identities with
   every role set, at every phase of the clock within a second *)

AssocInputs == {SetToBag(S) : S \in SUBSET ((DOMAIN InitUsers) \X (DOMAIN InitRoles))}

InitToken ==
    /\ clock \in 0..(TicksPerSecond - 1)
    /\ users = InitUsers
    /\ roles = InitRoles
    /\ user_roles \in AssocInputs
    /\ serving = {}
    /\ InitIdle
    /\ azIn = AzIdle
    /\ azOut = "none"
    /\ proc = Started

NoPair == [none |-> TRUE]

\* the result of one call of the token service
TokenResult(op, uid, tokenString, err, claims, pair, at) ==
    [op |-> op, uid |-> uid, token |-> tokenString, err |-> err, claims |-> claims,
     pair |-> pair, at |-> at]

\* jwtService.GenerateTokenPair(&user) for a user loaded with its roles
IssuePair ==
    /\ Sent
    /\ CanIssue
    /\ \E uid \in DOMAIN users, d \in SignDelays :
         LET pair == GenerateTokenPair(LoadUser(uid, TRUE), clock, clock + d)
         IN /\ issued' = issued \cup IssuedBy(pair, uid, clock, clock + d)
            /\ clock' = clock + d
            /\ nadv' = nadv + Advanced(d)
            /\ resp' = TokenResult("issue_pair", uid, NoToken, "", NoClaims, pair, clock)
    /\ UNCHANGED <<users, roles, user_roles, req, nreq, serving, proc, azIn, azOut>>

\* jwtService.ValidateToken(tokenString)
Validate ==
    /\ Sent
    /\ \E ts \in TokenInputs :
         LET v == ValidateToken(ts, clock)
         IN resp' = TokenResult("validate", 0, ts, v.err, v.claims, NoPair, clock)
    /\ UNCHANGED <<clock, users, roles, user_roles, issued, req, nadv, nreq, serving, proc,
                   azIn, azOut>>

NextToken ==
    \/ Deliver
    \/ Tick
    \/ TickNear
    \/ IssuePair
    \/ Validate

SpecToken == InitToken /\ [][NextToken]_vars

-----------------------------------------------------------------------------
(* The role check on its own: RoleMiddleware over role lists and allowed
   lists *)

AzRoleNames == {"user", "admin", "Admin"}
AzAllowedNames == {"admin", "moderator", "user"}

MaxListLen == 2

SeqsUpTo(S, n) == UNION {[1..k -> S] : k \in 0..n}

\* role rows with the given names
RolesNamed(names) == [i \in DOMAIN names |-> [id |-> i, name |-> names[i]]]

InitAuthz ==
    /\ clock = 0
    /\ users = InitUsers
    /\ roles = InitRoles
    /\ user_roles = InitUserRoles
    /\ serving = {}
    /\ InitIdle
    /\ azIn \in {[roles |-> RolesNamed(names), allowed |-> allowed] :
                    names \in SeqsUpTo(AzRoleNames, MaxListLen),
                    allowed \in SeqsUpTo(AzAllowedNames, MaxListLen)}
    /\ azOut = "none"
    /\ proc = Started

\* RoleMiddleware(allowed...) runs on a user with the given roles
Authorize ==
    /\ azOut = "none"
    /\ proc = Started
    /\ LET user == [LoadUser(1, FALSE) EXCEPT !.roles = azIn.roles]
           res == RoleMiddlewareRun(user, azIn.allowed)
       IN azOut' = IF res.abort THEN "deny" ELSE "allow"
    /\ resp' = IF azOut' = "deny"
               THEN Response(Request("authorize", <<>>, 0, EmptyBody),
                             RoleMiddlewareRun([LoadUser(1, FALSE) EXCEPT !.roles = azIn.roles],
                                               azIn.allowed).reply,
                             <<"Authorize">>, NoClaims, NoUser, {}, clock)
               ELSE NoResponse
    /\ UNCHANGED <<clock, users, roles, user_roles, issued, req, nadv, nreq, serving, proc, azIn>>

NextAuthz == Authorize

SpecAuthz == InitAuthz /\ [][NextAuthz]_vars

-----------------------------------------------------------------------------
(* Properties *)

FifteenMinutes == 15 * 60 * Second
SevenDays == 7 * 24 * 60 * 60 * Second

IsResponse == "req" \in DOMAIN resp
IsTokenResult == "op" \in DOMAIN resp

PipelineStages(route) ==
    <<"ExtractToken", "ValidateToken", "LoadIdentity">>
        \o (IF route \in UsersRoutes THEN <<"Authorize">> ELSE <<>>)
        \o <<"Dispatch">>

\* the header is the scheme "Bearer " followed by a token string
ExtractOK(r) ==
    /\ Len(r.header) >= 7
    /\ \A i \in 1..7 : r.header[i] = bearerScheme[i]

BearerOf(r) == SubSeq(r.header, 8, Len(r.header))

\* the token string is one GenerateTokenPair signed and has not expired at t
GenuineAt(ts, t) ==
    /\ ts \in IssuedTokens
    /\ t < NumericDateTime(ts[1].claims.exp)

\* the checks of the stages before the named one all passed for the request
\* taken at time at, with user the identity in the context and seen the role
\* names the directory held for it when it was loaded
PassedBefore(stage, r, claims, user, seen, at) ==
    /\ stage # "ExtractToken" => ExtractOK(r)
    /\ stage \in {"LoadIdentity", "Authorize", "Dispatch"} => GenuineAt(BearerOf(r), at)
    /\ stage \in {"Authorize", "Dispatch"} =>
          /\ user # NoUser
          /\ claims = BearerOf(r)[1].claims
          /\ user.id = claims.user_id
          /\ {user.roles[i].name : i \in DOMAIN user.roles} = seen
    /\ (stage = "Dispatch" /\ r.route \in UsersRoutes) => "admin" \in seen

\* C1: on a protected route the stages run in the order ExtractToken,
\* ValidateToken, LoadIdentity, Authorize (role-gated routes only), Dispatch;
\* the first failing stage ends the request with its status, and the handler
\* runs only when every earlier stage passed, on the identity LoadIdentity
\* loaded.
C1_PipelineOrder ==
    /\ \A w \in Workers : req[w].pc \in {"role", "handler"} =>
          LET q == req[w]
              full == PipelineStages(q.r.route)
          IN /\ q.r.route \in ProtectedRoutes
             /\ q.pc \in {"role", "handler"}
             /\ q.pc = "role" => q.r.route \in UsersRoutes
             /\ q.stages = SubSeq(full, 1, IF q.pc = "role" THEN 3 ELSE Len(full) - 1)
             /\ PassedBefore(IF q.pc = "role" THEN "Authorize" ELSE "Dispatch",
                             q.r, q.claims, q.user, q.seen, q.at)
    /\ (IsResponse /\ resp.req.route \in ProtectedRoutes) =>
          LET r == resp.req
              full == PipelineStages(r.route)
              n == Len(resp.stages)
              last == resp.stages[n]
          IN /\ n >= 1
             /\ n <= Len(full)
             /\ resp.stages = SubSeq(full, 1, n)
             /\ PassedBefore(last, r, resp.claims, resp.user, resp.seen, resp.at)
             /\ last = "ExtractToken" =>
                   resp.status = StatusUnauthorized /\ ~ExtractOK(r)
             /\ last = "ValidateToken" =>
                   resp.status = StatusUnauthorized /\ ~GenuineAt(BearerOf(r), resp.at)
             /\ last = "LoadIdentity" =>
                   /\ resp.status = StatusUnauthorized
                   /\ ~Live(BearerOf(r)[1].claims.user_id)
             /\ last = "Authorize" =>
                   resp.status = StatusForbidden /\ "admin" \notin resp.seen

\* C1 witness: a request to a role-gated route went through all five stages
C1_Witness ==
    /\ IsResponse
    /\ resp.stages = <<"ExtractToken", "ValidateToken", "LoadIdentity", "Authorize",
                       "Dispatch">>
    /\ resp.status = StatusOK
    /\ resp.req.route = "users_delete"

\* C2: RoleMiddleware allows iff the role names of the identity and the
\* allowed roles intersect under exact string comparison, and denies with 403
\* otherwise.
C2_AllowIffIntersect ==
    azOut # "none" =>
        LET held == {azIn.roles[i].name : i \in DOMAIN azIn.roles}
            required == {azIn.allowed[j] : j \in DOMAIN azIn.allowed}
        IN /\ (azOut = "allow") <=> (held \cap required # {})
           /\ (azOut = "deny") =>
                 /\ IsResponse
                 /\ resp.status = StatusForbidden

\* C2 witness: {"admin"} is denied for an identity whose roles are exactly
\* {"user"}
C2_Witness ==
    /\ azOut = "deny"
    /\ azIn.allowed = <<"admin">>
    /\ Len(azIn.roles) = 1
    /\ azIn.roles[1].name = "user"

\* C3: validate accepts a token only if it is one this service signed with
\* HS256 under its own secret, unaltered: a token under another key, with
\* another declared algorithm or none, or with an altered payload or header
\* is rejected whatever its claims and expiry.
C3_OnlyOwnTokens ==
    /\ (IsTokenResult /\ resp.op = "validate" /\ resp.err = "") =>
          /\ resp.token \in IssuedTokens
          /\ resp.token[1].header.alg = "HS256"
          /\ resp.token[1].sig.key = secretKey
    /\ \A ts \in ScratchTokens \cup AlteredTokens : ValidateToken(ts, clock).err # ""

\* C3 witness: validate rejected a token under another declared algorithm
\* whose claims are within their time window
C3_Witness ==
    /\ IsTokenResult
    /\ resp.op = "validate"
    /\ resp.err # ""
    /\ resp.token \in ScratchTokens
    /\ resp.token[1].header.alg = "HS384"
    /\ resp.token[1].sig.key = secretKey
    /\ ClaimsTimeError(resp.token[1].claims, resp.at) = ""

Lifetime(kind) == IF kind = "access" THEN FifteenMinutes ELSE SevenDays

\* C4 as claimed: a token issued at t0 passes validate at every t with
\* t0 <= t < t0 + lifetime (15 minutes, 7 days) and fails at every later time.
C4_Original ==
    \A i \in issued :
        clock >= i.at =>
            ((ValidateToken(i.token, clock).err = "") <=> (clock < i.at + Lifetime(i.kind)))

\* C4 amended: the expiry is kept in whole seconds, so a token issued at t0
\* passes validate at every t with t0 <= t < floor(t0) + lifetime, floor(t0)
\* being t0 cut to the whole second, and fails at every later time; before its
\* not-before it fails; expiry is rejected although the signature is valid.
C4_ExpiryInWholeSeconds ==
    /\ \A i \in issued :
          LET t0 == Truncate(i.at, Second)
          IN /\ clock >= i.at
             /\ (ValidateToken(i.token, clock).err = "") <=> (clock < t0 + Lifetime(i.kind))
             /\ t0 > 0 => ValidateToken(i.token, t0 - 1).err = "token is not valid yet"
    /\ (IsTokenResult /\ resp.op = "validate") =>
          \A i \in issued : i.token = resp.token =>
              /\ (resp.err = "") <=> (resp.at < Truncate(i.at, Second) + Lifetime(i.kind))
              /\ (resp.err # "") => resp.err = "token is expired"

\* C4 witness: validate rejected an access token less than 15 minutes after
\* it was issued, at the whole second of its expiry
C4_Witness ==
    /\ IsTokenResult
    /\ resp.op = "validate"
    /\ resp.err = "token is expired"
    /\ \E i \in issued :
          /\ i.token = resp.token
          /\ i.kind = "access"
          /\ resp.at = Truncate(i.at, Second) + FifteenMinutes
          /\ resp.at < i.at + FifteenMinutes

\* C5: issue_pair followed immediately by validate(access_token) succeeds and
\* returns the identity's id and its role names, each as often as the identity
\* holds it, the empty role set included.
C5_IssueThenValidate ==
    (IsTokenResult /\ resp.op = "issue_pair") =>
        LET v == ValidateToken(resp.pair.access_token, clock)
            held == {x \in BagToSet(user_roles) : x[1] = resp.uid}
        IN /\ v.err = ""
           /\ v.claims.user_id = resp.uid
           /\ Len(v.claims.roles) = Cardinality(held)
           /\ \A n \in Range(roles) \cup Range(v.claims.roles) :
                 Cardinality({k \in DOMAIN v.claims.roles : v.claims.roles[k] = n})
                     = Cardinality({x \in held : roles[x[2]] = n})

\* C5 witness: a pair was issued for an identity holding two roles
C5_Witness ==
    /\ IsTokenResult
    /\ resp.op = "issue_pair"
    /\ Cardinality({x \in BagToSet(user_roles) : x[1] = resp.uid}) = 2
    /\ ValidateToken(resp.pair.access_token, clock).claims.roles = <<"user", "admin">>

\* C6 as claimed: the two tokens of a pair carry the same claims but for the
\* expiry, not-before = issued-at in each, and the refresh expiry is the
\* access expiry plus exactly 7 days minus 15 minutes.
C6_Original ==
    (IsTokenResult /\ resp.op = "issue_pair") =>
        LET a == resp.pair.access_token[1].claims
            r == resp.pair.refresh_token[1].claims
        IN /\ [a EXCEPT !.exp = 0] = [r EXCEPT !.exp = 0]
           /\ a.nbf = a.iat
           /\ r.nbf = r.iat
           /\ NumericDateTime(r.exp) - NumericDateTime(a.exp) = SevenDays - FifteenMinutes

\* C6 amended: the two tokens carry the same subject id, email, name, role
\* list and issuer, and not-before = issued-at in each; each token takes its
\* issued-at from its own reading of the clock, so the refresh issued-at is
\* the access issued-at or later and the refresh expiry is the access expiry
\* plus 7 days minus 15 minutes plus the difference of the two issued-at; the
\* two issued-at are equal when both readings fall in the same second.
C6_SameTemplatePerReading ==
    (IsTokenResult /\ resp.op = "issue_pair") =>
        LET a == resp.pair.access_token[1].claims
            r == resp.pair.refresh_token[1].claims
        IN /\ a.user_id = r.user_id
           /\ a.email = r.email
           /\ a.name = r.name
           /\ a.roles = r.roles
           /\ a.iss = r.iss
           /\ a.nbf = a.iat
           /\ r.nbf = r.iat
           /\ a.iat <= r.iat
           /\ NumericDateTime(a.exp) = NumericDateTime(a.iat) + FifteenMinutes
           /\ NumericDateTime(r.exp) = NumericDateTime(r.iat) + SevenDays
           /\ \A ia, ir \in issued :
                 (/\ ia.token = resp.pair.access_token
                  /\ ia.kind = "access"
                  /\ ir.token = resp.pair.refresh_token
                  /\ ir.kind = "refresh"
                  /\ ia.at \div Second = ir.at \div Second)
                 => a.iat = r.iat

\* C6 witness: the clock moved into the next second between the two signings
C6_Witness ==
    /\ IsTokenResult
    /\ resp.op = "issue_pair"
    /\ resp.pair.access_token[1].claims.iat < resp.pair.refresh_token[1].claims.iat

\* the response to a request that got as far as the role check of the /users
\* group
RoleChecked ==
    /\ IsResponse
    /\ resp.req.route \in UsersRoutes
    /\ Len(resp.stages) >= 4

\* C7: on a role-gated route the role check is made against the roles the
\* directory holds for the identity when the request loads it, not against
\* the role list of the token: a token listing "admin" is denied (403) on
\* every admin route once "admin" is removed, and a token issued before
\* "admin" was assigned is allowed.
C7_RoleCheckOnLoadedIdentity ==
    RoleChecked =>
        LET last == resp.stages[Len(resp.stages)]
            listed == {resp.claims.roles[k] : k \in DOMAIN resp.claims.roles}
        IN /\ (last = "Authorize") <=> ("admin" \notin resp.seen)
           /\ (last = "Dispatch") <=> ("admin" \in resp.seen)
           /\ (last = "Authorize") => resp.status = StatusForbidden
           /\ (last = "Dispatch") => resp.status # StatusForbidden
           /\ ("admin" \in listed /\ "admin" \notin resp.seen) =>
                 resp.status = StatusForbidden
           /\ ("admin" \notin listed /\ "admin" \in resp.seen) =>
                 resp.status \notin {StatusForbidden, StatusUnauthorized}

\* C7 witness: after "admin" was removed, a token whose claims list "admin"
\* is denied on an admin route
C7_Witness ==
    /\ RoleChecked
    /\ resp.req.route = "users_get"
    /\ resp.status = StatusForbidden
    /\ \E k \in DOMAIN resp.claims.roles : resp.claims.roles[k] = "admin"
    /\ GenuineAt(BearerOf(resp.req), resp.at)

\* C8 as claimed: GET /users is decided on the role snapshot of the token:
\* denied with 403 while the token does not list "admin", whatever was
\* assigned since, and allowed while it does, whatever was removed since.
C8_Original ==
    (RoleChecked /\ resp.req.route = "users_list") =>
        LET listed == {resp.claims.roles[k] : k \in DOMAIN resp.claims.roles}
        IN /\ ("admin" \notin listed) <=> (resp.status = StatusForbidden)
           /\ ("admin" \in listed) <=> (resp.status = StatusOK)

\* C8 amended: an access token keeps the role list of its issuance until it
\* expires, but that list does not decide GET /users: the request is allowed
\* with 200 iff the directory holds "admin" for the identity at the time of
\* the request and denied with 403 otherwise, so the old token is allowed
\* after "admin" is assigned and denied after "admin" is removed; a token
\* whose list agrees with the directory, as one fresh from login does, is
\* allowed iff it lists "admin".
C8_SnapshotDoesNotDecide ==
    (RoleChecked /\ resp.req.route = "users_list") =>
        LET listed == {resp.claims.roles[k] : k \in DOMAIN resp.claims.roles}
        IN /\ \E i \in issued :
                 /\ i.token = BearerOf(resp.req)
                 /\ i.roles = resp.claims.roles
                 /\ i.at <= resp.at
           /\ (resp.status = StatusOK) <=> ("admin" \in resp.seen)
           /\ (resp.status = StatusForbidden) <=> ("admin" \notin resp.seen)
           /\ listed = resp.seen => ((resp.status = StatusOK) <=> ("admin" \in listed))

\* C8 witness: after "admin" was assigned, GET /users with the token issued
\* before the assignment is allowed
C8_Witness ==
    /\ RoleChecked
    /\ resp.req.route = "users_list"
    /\ resp.status = StatusOK
    /\ \A k \in DOMAIN resp.claims.roles : resp.claims.roles[k] # "admin"
    /\ GenuineAt(BearerOf(resp.req), resp.at)

\* the user of that id was deleted before the request of the last response
DeletedBefore(uid) ==
    /\ uid \in DOMAIN users
    /\ users[uid].deleted
    /\ ~(/\ resp.req.route = "users_delete"
         /\ resp.req.id = uid
         /\ resp.stages[Len(resp.stages)] = "Dispatch"
         /\ resp.status = StatusOK)

\* C9: after an identity is deleted, a request presenting one of its issued
\* tokens, as bearer on a protected route or as refresh_token at
\* /auth/refresh, ends 401, also while the token still passes validate; login
\* with its credentials ends 401.
C9_DeletedIdentityIsUnauthenticated ==
    IsResponse =>
        LET r == resp.req
        IN /\ (/\ r.route \in ProtectedRoutes
               /\ ExtractOK(r)
               /\ BearerOf(r) \in IssuedTokens
               /\ DeletedBefore(BearerOf(r)[1].claims.user_id))
              => /\ resp.status = StatusUnauthorized
                 /\ ValidateToken(BearerOf(r), resp.at).err = "" =>
                       /\ resp.stages = <<"ExtractToken", "ValidateToken", "LoadIdentity">>
                       /\ resp.error = "User not found"
           /\ (/\ r.route = "refresh"
               /\ r.body.refresh_token \in IssuedTokens
               /\ DeletedBefore(r.body.refresh_token[1].claims.user_id))
              => resp.status = StatusUnauthorized
           /\ (/\ r.route = "login"
               /\ \E u \in DOMAIN users :
                     /\ DeletedBefore(u)
                     /\ users[u].email = r.body.email
                     /\ CompareHashAndPassword(users[u].password, r.body.password))
              => resp.status = StatusUnauthorized

\* C9 witness: the refresh token of a deleted identity, still passing
\* validate, is refused at /auth/refresh
C9_Witness ==
    /\ IsResponse
    /\ resp.req.route = "refresh"
    /\ resp.req.body.refresh_token \in IssuedTokens
    /\ ValidateToken(resp.req.body.refresh_token, resp.at).err = ""
    /\ DeletedBefore(resp.req.body.refresh_token[1].claims.user_id)
    /\ resp.status = StatusUnauthorized

BearerIsRefreshToken ==
    /\ IsResponse
    /\ resp.req.route \in ProtectedRoutes
    /\ ExtractOK(resp.req)
    /\ \E i \in issued : i.token = BearerOf(resp.req) /\ i.kind = "refresh"
    /\ \A i \in issued : i.token = BearerOf(resp.req) => i.kind = "refresh"

\* C11 as claimed: a refresh token is usable solely at the refresh operation:
\* as the bearer of a request to a protected route it does not authenticate
\* the request, at any time of its 7 days.
C11_RefreshTokenOnlyAtRefresh ==
    BearerIsRefreshToken =>
        /\ resp.status = StatusUnauthorized
        /\ resp.stages = <<"ExtractToken", "ValidateToken">>

\* C12 as claimed: an identity may update its own record without holding
\* "admin": PUT /users/:id by an authenticated caller whose id is :id and
\* whose roles are exactly {"user"} succeeds with 200; PUT on the record of
\* another identity succeeds only if the caller holds "admin" and ends 403
\* otherwise.
C12_SelfUpdateWithoutAdmin ==
    (IsResponse /\ resp.req.route = "users_put" /\ resp.user # NoUser) =>
        LET r == resp.req
            self == resp.user.id = r.id
        IN /\ (self /\ resp.seen = {"user"} /\ r.body.name = "Bo") =>
                 resp.status = StatusOK
           /\ (~self /\ resp.status = StatusOK) => "admin" \in resp.seen
           /\ (~self /\ "admin" \notin resp.seen) => resp.status = StatusForbidden

\* the step answers a registration with 201
RegisteredNow ==
    /\ IsResponse'
    /\ resp'.req.route = "register"
    /\ resp'.status = StatusCreated

\* C13: a successful registration creates exactly one identity, whose role
\* set is exactly {"user"}, answers 201 and returns a token pair whose
\* validated claims carry the id of that identity and the role list
\* <<"user">>; the role "user" is created first if it does not exist yet.
C13_RegistrationCreatesOneUser ==
    [][RegisteredNow =>
        LET id == resp'.data.user.id
            body == resp'.req.body
            access == ValidateToken(resp'.data.access_token, clock')
            refresh == ValidateToken(resp'.data.refresh_token, clock')
            joined == {x \in BagToSet(user_roles') : x[1] = id}
        IN /\ Len(users') = Len(users) + 1
           /\ id = Len(users')
           /\ \A u \in DOMAIN users : users'[u] = users[u]
           /\ users'[id].email = body.email
           /\ users'[id].name = body.name
           /\ CompareHashAndPassword(users'[id].password, body.password)
           /\ ~users'[id].deleted
           /\ Cardinality(joined) = 1
           /\ \A x \in joined : roles'[x[2]] = "user" /\ CopiesIn(x, user_roles') = 1
           /\ \A x \in BagToSet(user_roles) \cup BagToSet(user_roles') :
                 x[1] # id => CopiesIn(x, user_roles') = CopiesIn(x, user_roles)
           /\ Len(resp'.data.user.roles) = 1
           /\ resp'.data.user.roles[1].name = "user"
           /\ access.err = ""
           /\ access.claims.user_id = id
           /\ access.claims.roles = <<"user">>
           /\ refresh.err = ""
           /\ refresh.claims.user_id = id
           /\ refresh.claims.roles = <<"user">>
           /\ IF \E i \in DOMAIN roles : roles[i] = "user"
              THEN roles' = roles
              ELSE roles' = Append(roles, "user")
    ]_vars

\* C13 witness: a registration was answered with 201 where no role "user"
\* existed before it
C13_Witness ==
    /\ IsResponse
    /\ resp.req.route = "register"
    /\ resp.status = StatusCreated
    /\ roles = <<"user">>
    /\ Len(users) = 1
    /\ BagToSet(user_roles) = {<<1, 1>>}

\* C14 as claimed: a registration with the email of an identity registered
\* before, deleted since or not, and also when the two registrations overlap
\* in time, fails with Conflict (400) and creates no identity.
C14_SecondRegistrationIsConflict ==
    [][(/\ IsResponse'
        /\ resp'.req.route = "register"
        /\ \E u \in DOMAIN users : users[u].email = resp'.req.body.email)
       => /\ resp'.status = StatusBadRequest
          /\ users' = users
    ]_vars

\* C15: in every reachable state no two identities, live or soft-deleted,
\* share an email, whatever the interleaving of the registration requests,
\* and no operation changes the email of an existing identity.
C15_EmailsUnique ==
    /\ [](\A u, v \in DOMAIN users : users[u].email = users[v].email => u = v)
    /\ [][/\ Len(users') >= Len(users)
          /\ \A u \in DOMAIN users : users'[u].email = users[u].email]_vars

\* C15 witness: of two overlapping registrations of one email, both past the
\* lookup, one has created the identity and the other was refused
C15_Witness ==
    /\ IsResponse
    /\ resp.req.route = "register"
    /\ resp.status = StatusInternalServerError
    /\ \A u \in DOMAIN users : ~users[u].deleted
    /\ Cardinality({u \in DOMAIN users : users[u].email = resp.req.body.email}) = 1

\* the step answers a request to the route, whose handler ran, for a role
\* name as the handlers normalise it and a target that exists
RoleRequestAnswered(route) ==
    /\ IsResponse'
    /\ resp'.req.route = route
    /\ resp'.stages[Len(resp'.stages)] = "Dispatch"
    /\ resp'.req.body.role_name \in {"admin", "user"}
    /\ Live(resp'.req.id)

\* C16: assigning a role the target identity already holds fails with 400,
\* and so does removing a role it does not hold; in both cases the role set
\* of the identity is the same after the request as before it.
C16_RoleConflicts ==
    [][/\ (/\ RoleRequestAnswered("roles_assign")
           /\ resp'.req.body.role_name \in DirRoleNames(resp'.req.id))
          => /\ resp'.status = StatusBadRequest
             /\ resp'.error = "User already has this role"
             /\ user_roles' = user_roles
             /\ {roles'[x[2]] : x \in {y \in BagToSet(user_roles') : y[1] = resp'.req.id}}
                   = DirRoleNames(resp'.req.id)
       /\ (/\ RoleRequestAnswered("roles_remove")
           /\ resp'.req.body.role_name \notin DirRoleNames(resp'.req.id))
          => /\ resp'.status = StatusBadRequest
             /\ resp'.error = "User doesn't have this role"
             /\ user_roles' = user_roles
             /\ {roles'[x[2]] : x \in {y \in BagToSet(user_roles') : y[1] = resp'.req.id}}
                   = DirRoleNames(resp'.req.id)
    ]_vars

\* C16 witness: the assignment of a role the identity holds was refused
C16_Witness ==
    /\ IsResponse
    /\ resp.req.route = "roles_assign"
    /\ resp.status = StatusBadRequest
    /\ resp.error = "User already has this role"
    /\ resp.req.body.role_name \in DirRoleNames(resp.req.id)

\* C17: in every reachable state the join table of identities and roles holds
\* no (identity, role) pair twice, also when two assignments of one role to
\* one identity both pass the "already has this role" check before either
\* appends.
C17_NoDuplicatePairs ==
    \A row \in BagToSet(user_roles) : CopiesIn(row, user_roles) = 1

\* C17 witness: one of two assignments of the same role to the same identity
\* has appended and been answered 200 while the other, past its check, is
\* still to append
C17_Witness ==
    /\ IsResponse
    /\ resp.req.route = "roles_assign"
    /\ resp.status = StatusOK
    /\ \E w \in Workers :
          /\ req[w].pc = "append"
          /\ req[w].r.id = resp.req.id
          /\ req[w].r.body.role_name = resp.req.body.role_name
          /\ BagIn(<<req[w].target.id, req[w].role>>, user_roles)

\* C18 as claimed: in every reachable state every live identity has a
\* non-empty role set: no sequence of assign-role, remove-role, update and
\* delete requests leaves a live identity with no role.
C18_LiveIdentityHasRole ==
    \A u \in DOMAIN users : Live(u) => DirRoleNames(u) # {}

\* C19: on a protected route a request whose Authorization header is absent,
\* empty or does not begin with exactly "Bearer " is answered 401 by
\* ExtractToken, with no later stage entered and nothing loaded; only requests
\* whose header begins with "Bearer " go further; the header that is exactly
\* "Bearer " passes extraction with an empty token string and is answered 401
\* by ValidateToken.
C19_ExtractTokenRejects ==
    /\ \A w \in Workers :
          (req[w].pc # "idle" /\ req[w].r.route \in ProtectedRoutes) => ExtractOK(req[w].r)
    /\ (IsResponse /\ resp.req.route \in ProtectedRoutes) =>
          /\ ~ExtractOK(resp.req) =>
                /\ resp.status = StatusUnauthorized
                /\ resp.stages = <<"ExtractToken">>
                /\ resp.claims = NoClaims
                /\ resp.user = NoUser
          /\ resp.req.header = bearerScheme =>
                /\ BearerOf(resp.req) = <<>>
                /\ resp.status = StatusUnauthorized
                /\ resp.stages = <<"ExtractToken", "ValidateToken">>

\* C19 witness: the header "Bearer" without the space was rejected by
\* ExtractToken
C19_Witness ==
    /\ IsResponse
    /\ resp.req.route \in ProtectedRoutes
    /\ resp.req.header = SubSeq(bearerScheme, 1, Len(bearerScheme) - 1)
    /\ resp.status = StatusUnauthorized
    /\ resp.stages = <<"ExtractToken">>

\* the issued tokens that have expired by the time t
ExpiredAt(t) == {ts \in IssuedTokens : ~(t < NumericDateTime(ts[1].claims.exp))}

\* the tokens an attacker altered or made without the key of the service
TamperedTokens == AlteredTokens \cup ScratchTokens

\* the answer of a protected route to a request that carries the token: the
\* body and the stage that wrote it
ProtectedReply(route, ts, t) ==
    LET res == AuthMiddlewareRun(Request(route, bearerScheme \o ts, RouteDefault(route).id,
                                         RouteDefault(route).body), t)
    IN [abort |-> res.abort, reply |-> res.reply, stages |-> res.stages]

\* the answer of POST /api/auth/refresh to the token
RefreshReply(ts, t) == RefreshHandlerRun(Body("", "", ts, ""), t, t, t)

\* the body of the response
ResponseBody(rs) == Reply(rs.status, rs.error, rs.data)

\* the step answers a request to the route set with a token the validation
\* fails: one that has expired, or one the service did not issue
AnswersFailing(routes, ts) ==
    /\ resp' # resp
    /\ "req" \in DOMAIN resp'
    /\ resp'.req.route \in routes
    /\ ts # NoToken
    /\ ~GenuineAt(ts, resp'.at)

\* C20: whenever a protected route answers an expired token or one the
\* service did not issue, the answer is 401 and is, body and stage, the
\* answer the same route gives at that time to every expired token and to
\* every tampered token; the same holds of the body with which
\* POST /api/auth/refresh answers such a token.
C20_ExpiredLikeTampered ==
    [][/\ (AnswersFailing(ProtectedRoutes, BearerOf(resp'.req)) /\ ExtractOK(resp'.req)) =>
            /\ resp'.status = StatusUnauthorized
            /\ \A ts \in ExpiredAt(resp'.at) \cup TamperedTokens :
                  /\ ProtectedReply(resp'.req.route, ts, resp'.at).abort
                  /\ ProtectedReply(resp'.req.route, ts, resp'.at).reply = ResponseBody(resp')
                  /\ ProtectedReply(resp'.req.route, ts, resp'.at).stages = resp'.stages
       /\ AnswersFailing({"refresh"}, resp'.req.body.refresh_token) =>
            /\ resp'.status = StatusUnauthorized
            /\ \A ts \in ExpiredAt(resp'.at) \cup TamperedTokens :
                  RefreshReply(ts, resp'.at) = ResponseBody(resp')]_vars

\* C20 witness: a protected route answered 401 to an expired token while
\* tampered copies of issued tokens exist
C20_Witness ==
    /\ IsResponse
    /\ resp.req.route \in ProtectedRoutes
    /\ ExtractOK(resp.req)
    /\ BearerOf(resp.req) \in ExpiredAt(resp.at)
    /\ resp.status = StatusUnauthorized
    /\ resp.at = clock
    /\ AlteredTokens # {}

\* C21 as claimed: a login with a well-formed body succeeds (200) iff the
\* email is that of a live identity and the password equals the one the
\* identity registered with; every other such login ends 401 with the one
\* message "Invalid email or password"; and the password hash of an identity
\* stays the hash of the password it registered with.
C21_LoginIffRegisteredPassword ==
    /\ \A u \in DOMAIN users : users[u].password = HashPassword(InitPasswords[u])
    /\ (IsResponse /\ resp.req.route = "login"
          /\ resp.req.body.email # "" /\ resp.req.body.password # "") =>
          /\ resp.status = StatusOK <=>
                \E u \in DOMAIN users :
                   /\ Live(u)
                   /\ users[u].email = resp.req.body.email
                   /\ resp.req.body.password = InitPasswords[u]
          /\ resp.status # StatusOK =>
                /\ resp.status = StatusUnauthorized
                /\ resp.error = "Invalid email or password"

\* C22: a successful POST /api/auth/refresh hands out a pair whose two tokens
\* carry, as role claims, exactly the role names the Directory joins to the
\* subject at that time, each once, whatever the presented token lists; and
\* the refresh ends 401 when the presented token fails validation or its
\* subject is soft-deleted or absent.
C22_RefreshRolesFromDirectory ==
    (IsResponse /\ resp.req.route = "refresh" /\ resp.req.body.refresh_token # NoToken) =>
        LET ts == resp.req.body.refresh_token
        IN /\ resp.status = StatusOK =>
                 \A new \in {resp.data.access_token, resp.data.refresh_token} :
                    /\ new[1].claims.user_id = ts[1].claims.user_id
                    /\ Range(new[1].claims.roles) = DirRoleNames(ts[1].claims.user_id)
                    /\ Len(new[1].claims.roles)
                          = Cardinality(DirRoleNames(ts[1].claims.user_id))
           /\ ValidateToken(ts, resp.at).err # "" => resp.status = StatusUnauthorized
           /\ (ValidateToken(ts, resp.at).err = "" /\ ~Live(ts[1].claims.user_id)) =>
                 resp.status = StatusUnauthorized

\* C22 witness: a refresh succeeded with a token whose role list is no longer
\* the role set of its subject
C22_Witness ==
    /\ IsResponse
    /\ resp.req.route = "refresh"
    /\ resp.status = StatusOK
    /\ Range(resp.req.body.refresh_token[1].claims.roles)
          # DirRoleNames(resp.req.body.refresh_token[1].claims.user_id)
    /\ Range(resp.data.access_token[1].claims.roles)
          = DirRoleNames(resp.req.body.refresh_token[1].claims.user_id)

\* C23: GET /api/profile answered 200 returns the record of the identity
\* whose id is the subject of the token, with the email, the name and the
\* roles the Directory holds for it when the request is served, not those of
\* the claims, and the record of no other identity.
C23_ProfileIsCurrentIdentity ==
    (IsResponse /\ resp.req.route = "profile" /\ resp.status = StatusOK) =>
        LET uid == BearerOf(resp.req)[1].claims.user_id
        IN /\ Live(uid)
           /\ resp.data.id = uid
           /\ resp.data.email = users[uid].email
           /\ resp.data.name = users[uid].name
           /\ resp.data.roles = PreloadRoles(uid)

\* C23 witness: the profile returned carries a name or roles other than those
\* of the claims of the token
C23_Witness ==
    /\ IsResponse
    /\ resp.req.route = "profile"
    /\ resp.status = StatusOK
    /\ resp.data.name # BearerOf(resp.req)[1].claims.name
    /\ resp.data.name = users[resp.data.id].name

\* the role name a request means: lower case, no space at either end
NormalName ==
    [n \in {"admin", "user", " Admin ", "ADMIN", "Editor "} |->
        CASE n \in {"admin", " Admin ", "ADMIN"} -> "admin"
          [] n = "user" -> "user"
          [] n = "Editor " -> "editor"]

\* worker w runs the handler of the route in this step, on a live identity
RunsHandler(w, route) ==
    /\ req[w].pc = "handler"
    /\ req'[w].pc # "handler"
    /\ req[w].r.route = route
    /\ req[w].r.body.role_name \in DOMAIN NormalName
    /\ Live(req[w].r.id)

\* C24: every stored role name is lower case and trimmed; assign-role looks
\* the normalised name up, so that it fails with 400 and changes nothing when
\* the identity holds the role of that name (" Admin " against "admin") and
\* otherwise goes on with the role of the normalised name; remove-role removes
\* the role of the normalised name ("ADMIN" removes "admin") and fails with
\* 400 when the identity does not hold it.
C24_RoleNamesNormalised ==
    /\ [](Range(roles) \subseteq {"user", "admin", "editor"})
    /\ [][\A w \in Workers :
            /\ RunsHandler(w, "roles_assign") =>
                 IF NormalName[req[w].r.body.role_name] \in DirRoleNames(req[w].r.id)
                 THEN /\ "req" \in DOMAIN resp'
                      /\ resp'.status = StatusBadRequest
                      /\ resp'.error = "User already has this role"
                      /\ roles' = roles
                      /\ user_roles' = user_roles
                 ELSE /\ req'[w].pc = "append"
                      /\ roles'[req'[w].role] = NormalName[req[w].r.body.role_name]
                      /\ user_roles' = user_roles
            /\ RunsHandler(w, "roles_remove") =>
                 /\ "req" \in DOMAIN resp'
                 /\ roles' = roles
                 /\ IF NormalName[req[w].r.body.role_name] \in DirRoleNames(req[w].r.id)
                    THEN /\ resp'.status = StatusOK
                         /\ {roles'[x[2]] : x \in {y \in BagToSet(user_roles') :
                                                      y[1] = req[w].r.id}}
                               = DirRoleNames(req[w].r.id)
                                    \ {NormalName[req[w].r.body.role_name]}
                    ELSE /\ resp'.status = StatusBadRequest
                         /\ user_roles' = user_roles]_vars

\* C24 witness: assigning " Admin " to an identity that holds "admin" was
\* answered 400
C24_Witness ==
    /\ IsResponse
    /\ resp.req.route = "roles_assign"
    /\ resp.req.body.role_name = " Admin "
    /\ resp.status = StatusBadRequest
    /\ "admin" \in DirRoleNames(resp.req.id)
    /\ Range(roles) = {"user", "admin"}

\* the serialised identities in the data of a response
IdentitiesIn(data) ==
    IF "user" \in DOMAIN data THEN {data.user}
    ELSE IF "list" \in DOMAIN data THEN Range(data.list)
    ELSE IF "id" \in DOMAIN data THEN {data}
    ELSE {}

\* C25: every serialised identity in a response (login, profile, list users,
\* get user, update, assign role, remove role; register serialises with the
\* same operator) has exactly the fields id, email, name, the profile fields
\* and roles, and each of its roles the fields id and name: neither the
\* password nor its hash is among them.
C25_NoPasswordInResponses ==
    IsResponse =>
        \A u \in IdentitiesIn(resp.data) :
           /\ "password" \notin DOMAIN u
           /\ DOMAIN u = {"id", "email", "name", "profile", "roles"}
           /\ DOMAIN u.profile = DOMAIN NoProfile
           /\ \A i \in DOMAIN u.roles : DOMAIN u.roles[i] = {"id", "name"}

\* C25 witness: a login returned the identity of a user whose row holds a
\* password hash
C25_Witness ==
    /\ IsResponse
    /\ resp.req.route = "login"
    /\ resp.status = StatusOK
    /\ IdentitiesIn(resp.data) = {resp.data.user}
    /\ users[resp.data.user.id].password = HashPassword(resp.req.body.password)
    /\ "password" \in DOMAIN LoadUser(resp.data.user.id, TRUE)


-----------------------------------------------------------------------------
\* C26: the server listens only where DB_DSN and JWT_SECRET are both set and
\* not empty, and it then listens on SERVER_PORT, on 8080 where that variable
\* is unset or empty; where DB_DSN or JWT_SECRET is unset or empty the process
\* has exited by the end of main with the message naming the missing variable
\* and no request is ever taken, answered or given a token; no exit is caused
\* by the port being absent
C26_RefusesToStartWithoutSettings ==
    LET dsn == Getenv(proc.env, "DB_DSN")
        secret == Getenv(proc.env, "JWT_SECRET")
        port == Getenv(proc.env, "SERVER_PORT")
    IN /\ proc.pc = "serving" =>
            /\ dsn # "" /\ secret # ""
            /\ proc.addr = ":" \o (IF port = "" THEN "8080" ELSE port)
       /\ (dsn = "" \/ secret = "") =>
            /\ proc.pc # "serving"
            /\ nreq = 0 /\ resp = NoResponse /\ issued = {}
            /\ \A w \in Workers : req[w] = IdleReq
            /\ proc.pc = "exited" =>
                  proc.log = IF dsn = ""
                             THEN "DB_DSN environment variable is required"
                             ELSE "JWT_SECRET environment variable is required"
       /\ (proc.pc = "exited" /\ dsn # "" /\ secret # "") =>
            proc.log \in {"Failed to connect to database",
                          "Failed to auto-migrate models", "Failed to start server"}

\* main has refused to start for want of the signing secret alone
C26_Witness ==
    /\ proc.pc = "exited"
    /\ "JWT_SECRET" \notin DOMAIN proc.env
    /\ Getenv(proc.env, "DB_DSN") # ""
    /\ proc.log = "JWT_SECRET environment variable is required"


\* C27 as claimed: when two overlapping assignments of one role to one
\* identity have both passed the "already has this role" check, the one that
\* appends second, whose pair is in the join table already, is answered 400
\* and not 500, and the join table holds the pair once.
C27_DuplicateInsertIsConflict ==
    [][\A w \in Workers :
          (/\ req[w].pc = "append"
           /\ req'[w] = IdleReq
           /\ BagIn(<<req[w].target.id, req[w].role>>, user_roles))
          => /\ resp'.status = StatusBadRequest
             /\ resp'.status # StatusInternalServerError
             /\ CopiesIn(<<req[w].target.id, req[w].role>>, user_roles') = 1]_vars


\* C28: a step that changes the directory (an update, a deletion, a role
\* assigned or removed) changes the result of ValidateToken for no issued
\* token: the result after the step is the result before it, and it is
\* success exactly while the clock is before the token's expiry, whatever has
\* become of the subject.
C28_ValidateIgnoresDirectory ==
    [][(/\ <<users, roles, user_roles>>' # <<users, roles, user_roles>>
        /\ clock' = clock)
       => \A ts \in IssuedTokens :
             /\ (ValidateToken(ts, clock))' = ValidateToken(ts, clock)
             /\ ((ValidateToken(ts, clock))'.err = "")
                   <=> (clock' < NumericDateTime(ts[1].claims.exp))
             /\ ((ValidateToken(ts, clock))'.err = "")
                   => (ValidateToken(ts, clock))'.claims = ts[1].claims]_vars

\* C28 witness: a request with an issued, unexpired access token whose
\* subject has been deleted since has passed ValidateToken and was answered
\* by LoadIdentity
C28_Witness ==
    /\ IsResponse
    /\ resp.stages = <<"ExtractToken", "ValidateToken", "LoadIdentity">>
    /\ resp.status = StatusUnauthorized
    /\ \E i \in issued :
          /\ resp.req.header = bearerScheme \o i.token
          /\ ~Live(i.uid)
          /\ ValidateToken(i.token, clock).err = ""


\* C29: whenever a request is answered by LoadIdentity, the answer is 401
\* "User not found" or 500 "Database error"; the 401 is given for a subject
\* that is soft-deleted and is, status, body and stages, the answer the same
\* route gives at that time to a token of the service whose subject id was
\* never in the directory; the 500 is given when the query fails; and in
\* each case the chain stops there: no worker goes on to Authorize or to the
\* handler, nothing is set in the context and the directory is left as it was.
C29_LoadIdentityOutcomes ==
    [][(/\ resp' # resp
        /\ "req" \in DOMAIN resp'
        /\ resp'.stages = <<"ExtractToken", "ValidateToken", "LoadIdentity">>)
       => LET rs == resp'
              ts == SubSeq(rs.req.header, Len(bearerScheme) + 1, Len(rs.req.header))
              uid == ts[1].claims.user_id
              never == generateToken([id |-> Len(users) + 1, email |-> "gone@x.com",
                                      name |-> "Gone"], <<"admin">>, AccessDuration, clock)
              toNever == AuthMiddlewareRun([rs.req EXCEPT !.header = bearerScheme \o never],
                                           clock)
          IN /\ ~LiveUnscoped(Len(users) + 1)
             /\ toNever.abort
             /\ toNever.reply = Reply(StatusUnauthorized, "User not found", NoData)
             /\ \/ /\ LiveUnscoped(uid) /\ users[uid].deleted
                   /\ Reply(rs.status, rs.error, rs.data) = toNever.reply
                   /\ rs.stages = toNever.stages
                \/ /\ AuthMiddlewareRunFailing(rs.req, clock).reply
                         = Reply(rs.status, rs.error, rs.data)
                   /\ rs.status = StatusInternalServerError
                   /\ rs.error = "Database error"
             /\ rs.claims = NoClaims /\ rs.user = NoUser
             /\ req' = req
             /\ UNCHANGED <<users, roles, user_roles, issued>>]_vars

\* C29 witness: the query of LoadIdentity has failed for a request of a live
\* administrator to a route of the /users group and the request is answered
\* 500 with no later stage entered
C29_Witness ==
    /\ IsResponse
    /\ resp.status = StatusInternalServerError
    /\ resp.error = "Database error"
    /\ resp.stages = <<"ExtractToken", "ValidateToken", "LoadIdentity">>
    /\ resp.req.route \in UsersRoutes
    /\ \E i \in issued :
          /\ resp.req.header = bearerScheme \o i.token
          /\ Live(i.uid)
          /\ "admin" \in DirRoleNames(i.uid)


\* C30 as claimed: in every reachable state no two roles have the same name;
\* once a request has been taken the roles "user" and "admin" exist; and no
\* step deletes or renames a role: the roles table after a step is the table
\* before it, with new rows at its end at most.
C30_RolesSeededUniqueGrowOnly ==
    /\ [](/\ \A i, j \in DOMAIN roles : roles[i] = roles[j] => i = j
          /\ nreq > 0 => {"user", "admin"} \subseteq Range(roles))
    /\ [][/\ Len(roles') >= Len(roles)
          /\ SubSeq(roles', 1, Len(roles)) = roles]_vars


\* C31: DELETE /users/:id of a live identity answers 200 and sets the
\* tombstone of that row and nothing else: the row stays with its email, name
\* and hash, every other row, the roles and the identity-role pairs are as
\* before. On a row with the tombstone GET, PUT and DELETE /users/:id and
\* role assignment and removal, with a well-formed body, answer 404 "User not
\* found" and change nothing, and GET /users lists exactly the rows without
\* a tombstone.
C31_DeleteIsSoft ==
    [][\A w \in Workers :
          (/\ req[w].pc = "handler"
           /\ req'[w].pc # "handler"
           /\ req[w].r.route \in UsersRoutes)
          => LET r == req[w].r
                 stored == r.id \in DOMAIN users
                 gone == stored /\ users[r.id].deleted
                 formed == CASE r.route = "users_put" ->
                                   r.body.name = "" \/ Len(r.body.name) >= 2
                             [] r.route \in {"roles_assign", "roles_remove"} ->
                                   r.body.role_name # ""
                             [] OTHER -> TRUE
             IN /\ (r.route = "users_delete" /\ stored /\ ~gone) =>
                      /\ resp'.status = StatusOK
                      /\ users' = [users EXCEPT ![r.id].deleted = TRUE]
                      /\ roles' = roles
                      /\ user_roles' = user_roles
                /\ (r.route # "users_list" /\ gone /\ formed) =>
                      /\ resp'.status = StatusNotFound
                      /\ resp'.error = "User not found"
                      /\ UNCHANGED <<users, roles, user_roles>>
                /\ r.route = "users_list" =>
                      /\ resp'.status = StatusOK
                      /\ {resp'.data.list[i].id : i \in DOMAIN resp'.data.list}
                            = {u \in DOMAIN users : ~users[u].deleted}]_vars

\* C31 witness: a second DELETE of an identity that holds the tombstone, with
\* its role pairs still in the join table, has been answered 404
C31_Witness ==
    /\ IsResponse
    /\ resp.req.route = "users_delete"
    /\ resp.status = StatusNotFound
    /\ resp.req.id \in DOMAIN users
    /\ users[resp.req.id].deleted
    /\ \E x \in BagToSet(user_roles) : x[1] = resp.req.id


NoLiveAdmin == \A u \in DOMAIN users : Live(u) => "admin" \notin DirRoleNames(u)

\* the step changes the identity-role pairs of an identity that is registered
\* already, and worker w, whose caller LoadIdentity read with the role
\* "admin" and Authorize let pass, makes it
ChangesRolesAsAdmin(w) ==
    /\ req[w].pc \in {"handler", "append"}
    /\ req'[w] = IdleReq
    /\ req[w].r.route \in {"roles_assign", "roles_remove"}
    /\ "admin" \in req[w].seen
    /\ \E i \in DOMAIN req[w].user.roles : req[w].user.roles[i].name = "admin"
    /\ \E i \in DOMAIN req[w].stages : req[w].stages[i] = "Authorize"

\* C33 as claimed: every change of the identity-role pairs after a
\* registration is made by a request whose caller was loaded with "admin";
\* and from any state in which no live identity holds "admin" no step leads
\* to a state in which a live identity holds it.
C33_NoAdminFromNoAdmin ==
    [][/\ (user_roles' # user_roles /\ Len(users') = Len(users))
            => \E w \in Workers : ChangesRolesAsAdmin(w)
       /\ NoLiveAdmin => NoLiveAdmin']_vars

\* C33, amended: every change of the identity-role pairs after a registration
\* is made by a request whose caller was loaded with "admin"; and from any
\* state in which no live identity holds "admin" and no request is under way
\* whose caller was loaded with "admin", no step leads to a state in which a
\* live identity holds "admin" or such a request is under way.
C33_NoAdminWithoutAdmin ==
    [][/\ (user_roles' # user_roles /\ Len(users') = Len(users))
            => \E w \in Workers : ChangesRolesAsAdmin(w)
       /\ (/\ NoLiveAdmin
           /\ \A w \in Workers : ("seen" \in DOMAIN req[w]) => "admin" \notin req[w].seen)
            => /\ NoLiveAdmin'
               /\ \A w \in Workers :
                     ("seen" \in DOMAIN req'[w]) => "admin" \notin req'[w].seen]_vars

\* C33 witness: the one administrator has taken "admin" from itself, no
\* request is under way, and its next request to the /users group was
\* answered 403 by Authorize
C33_Witness ==
    /\ NoLiveAdmin
    /\ Quiet
    /\ IsResponse
    /\ resp.status = StatusForbidden
    /\ resp.stages[Len(resp.stages)] = "Authorize"
    /\ resp.req.route \in {"roles_assign", "users_put"}
    /\ Live(resp.user.id)


\* the statuses of requests that were refused
Refusals == {StatusBadRequest, StatusUnauthorized, StatusForbidden, StatusNotFound}

\* C34: a step that answers a request with 400, 401, 403 or 404 leaves users,
\* roles and identity-role pairs as they were, and so did every earlier step
\* of that request: a step that changes one of the three either answers with
\* another status or is the first half of a role assignment, and the second
\* half of an assignment, of an update and of a registration never answers
\* with one of the four. Assigning a role name that no role has to an
\* identity that no query finds answers 404 and creates no role.
C34_RefusalsChangeNothing ==
    [][/\ (resp' # resp /\ "req" \in DOMAIN resp' /\ resp'.status \in Refusals)
            => UNCHANGED <<users, roles, user_roles>>
       /\ <<users, roles, user_roles>>' # <<users, roles, user_roles>>
            => \/ "req" \in DOMAIN resp' /\ resp'.status \notin Refusals
               \/ \E w \in Workers : req[w].pc = "handler" /\ req'[w].pc = "append"
       /\ \A w \in Workers :
             (req[w].pc \in {"append", "save", "create"} /\ req'[w] = IdleReq)
                => resp'.status \notin Refusals
       /\ \A w \in Workers :
             (/\ req[w].pc = "handler"
              /\ req'[w].pc # "handler"
              /\ req[w].r.route = "roles_assign"
              /\ req[w].r.body.role_name # ""
              /\ ~Live(req[w].r.id))
                => /\ resp'.status = StatusNotFound
                   /\ roles' = roles]_vars

\* C34 witness: the assignment of a role name no role has to an identity
\* that is deleted has been answered 404, and no role has that name
C34_Witness ==
    /\ IsResponse
    /\ resp.req.route = "roles_assign"
    /\ resp.status = StatusNotFound
    /\ resp.req.body.role_name = "Editor "
    /\ "editor" \notin Range(roles)
    /\ ~Live(resp.req.id)


\* C35 as claimed: an identity that DELETE /users/:id has deleted is never
\* loadable again: no step of any request, one that read the identity before
\* the deletion included, takes the tombstone off a row.
C35_DeletionIsPermanent ==
    [][\A u \in DOMAIN users : ~Live(u) => ~Live(u)']_vars


\* C36 as claimed: when two overlapping PUT requests on one identity that
\* carry different fields have both been answered 200, the identity has the
\* values of both: the save of a request writes the fields the request
\* carries and leaves every other field of the row as the row has it at that
\* time.
C36_DisjointUpdatesBothTakeEffect ==
    [][\A w \in Workers :
          (req[w].pc = "save" /\ req'[w] = IdleReq /\ Live(req[w].r.id))
          => LET id == req[w].r.id
                 body == req[w].r.body
             IN /\ body.name = "" => users'[id].name = users[id].name
                /\ \A f \in DOMAIN NoProfile :
                      body.profile[f] = NoProfile[f]
                         => users'[id].profile[f] = users[id].profile[f]]_vars


\* C37: a request that has passed Authorize is not authorised again. When
\* its caller has since lost "admin" or has been deleted, the handler runs
\* all the same: it is not answered 401 or 403, DELETE /users/:id of a live
\* identity sets the tombstone and answers 200, an update of a live identity
\* goes on to save and its save writes the fields it carries and answers 200,
\* an assignment to a live identity that lacks the role goes on to append and
\* its append leaves the pair in the join table and answers 200.
C37_AuthorizedOncePerRequest ==
    [][\A w \in Workers :
          (/\ req[w].pc \in {"handler", "save", "append"}
           /\ req'[w] # req[w]
           /\ req[w].r.route \in UsersRoutes
           /\ "admin" \in req[w].seen
           /\ \/ ~Live(req[w].user.id)
              \/ "admin" \notin DirRoleNames(req[w].user.id))
          => LET r == req[w].r
                 pc == req[w].pc
                 answered == "req" \in DOMAIN resp'
             IN /\ answered => resp'.status \notin {StatusUnauthorized, StatusForbidden}
                /\ (pc = "handler" /\ r.route = "users_delete" /\ Live(r.id)) =>
                      /\ answered /\ resp'.status = StatusOK
                      /\ users'[r.id].deleted
                /\ (pc = "handler" /\ r.route = "users_put" /\ Live(r.id)) =>
                      req'[w].pc = "save"
                /\ pc = "save" =>
                      /\ answered /\ resp'.status = StatusOK
                      /\ r.body.name # "" => users'[r.id].name = r.body.name
                      /\ r.body.profile.tel # "" =>
                            users'[r.id].profile.tel = r.body.profile.tel
                      /\ r.body.profile.city # "" =>
                            users'[r.id].profile.city = r.body.profile.city
                /\ (/\ pc = "handler" /\ r.route = "roles_assign" /\ Live(r.id)
                    /\ r.body.role_name \notin DirRoleNames(r.id)) =>
                      req'[w].pc = "append"
                /\ pc = "append" =>
                      /\ answered /\ resp'.status = StatusOK
                      /\ BagIn(<<req[w].target.id, req[w].role>>, user_roles')]_vars

\* C37 witness: DELETE /users/2 was authorised while its caller held
\* "admin"; by the time its handler ran another request had taken "admin"
\* from the caller; identity 2 is deleted and the request was answered 200
C37_Witness ==
    /\ IsResponse
    /\ resp.req.route = "users_delete"
    /\ resp.req.id = 2
    /\ resp.status = StatusOK
    /\ users[2].deleted
    /\ "admin" \in resp.seen
    /\ Live(resp.user.id)
    /\ "admin" \notin DirRoleNames(resp.user.id)


\* C38: a refresh that succeeds takes nothing away. In the state it leaves,
\* and for as long as its response is the latest one, the token it was given
\* is accepted by a further refresh exactly as long as it has not expired, every token issued so far, the two new ones
\* included, validates exactly as long as it has not expired, no issued token
\* is forgotten, and the new refresh token expires seven days after its
\* signing, which is not before the token it was given does.
C38_RefreshConsumesNothing ==
    /\ [](("req" \in DOMAIN resp /\ resp.req.route = "refresh" /\ resp.status = StatusOK)
          => ((RefreshHandlerRun(Body("", "", resp.req.body.refresh_token, ""),
                                 clock, clock, clock).status = StatusOK)
                 <=> (clock < NumericDateTime(resp.req.body.refresh_token[1].claims.exp))))
    /\ [][(/\ resp' # resp
           /\ "req" \in DOMAIN resp'
           /\ resp'.req.route = "refresh"
           /\ resp'.status = StatusOK)
          => /\ issued \subseteq issued'
             /\ \A new \in {resp'.data.access_token, resp'.data.refresh_token} :
                   \E i \in issued' : i.token = new
             /\ \A i \in issued' :
                   ((ValidateToken(i.token, clock))'.err = "")
                      <=> (clock' < NumericDateTime(i.token[1].claims.exp))
             /\ LET new == resp'.data.refresh_token[1].claims
                IN /\ NumericDateTime(new.exp) = NumericDateTime(new.iat) + SevenDays
                   /\ NumericDateTime(new.iat) <= clock'
                   /\ NumericDateTime(new.iat) + Second > clock
                   /\ new.exp >= resp'.req.body.refresh_token[1].claims.exp]_vars

\* C38 witness: after the access token of a pair expired, the refresh token
\* of the pair was given to refresh, which answered 200 with a refresh token
\* that expires later; the token given is still valid
C38_Witness ==
    /\ IsResponse
    /\ resp.req.route = "refresh"
    /\ resp.status = StatusOK
    /\ \E i, a \in issued :
          /\ i.token = resp.req.body.refresh_token
          /\ i.kind = "refresh"
          /\ a.kind = "access" /\ a.uid = i.uid /\ a.at <= i.at
          /\ ValidateToken(a.token, clock).err # ""
          /\ ValidateToken(i.token, clock).err = ""
          /\ resp.data.refresh_token[1].claims.exp > i.token[1].claims.exp

====
